---- MODULE Spec2Model ----
(***************************************************************************)
(* KK-Bessel solver (src/solvers/bessel.py): solve_kk and its helpers as a *)
(* state machine.                                                          *)
(*                                                                         *)
(* Numbers.  The dimensionless variable x is held in fixed point, in       *)
(* thousandths (2405 is x = 2.405); a product with a decimal factor is     *)
(* rounded to the nearest thousandth.  The bulk-mass parameter c and the   *)
(* order nu are held in tenths (c = -4 is c = -0.4, nu = -9 is nu = -0.9). *)
(* Lambda_IR is held in TeV (3 is 3000 GeV), so a mass is in thousandths    *)
(* of a TeV.                                                               *)
(*                                                                         *)
(* Library functions.  scipy's jv, yv, jn_zeros and brentq are not part of *)
(* the repository.  The quantization function F is used by the solver only *)
(* through its sign (np.sign) and through brentq, so F is represented by   *)
(* its sign: the tabulated positions of its zeros (computed to the nearest *)
(* thousandth from the Bessel functions for each order, geometry and       *)
(* equation form) and its sign just above the origin.  F(x) = 0 exactly    *)
(* where x is a tabulated zero.                                            *)
(***************************************************************************)
EXTENDS Integers, Sequences, FiniteSets, TLC

(***************************************************************************)
(* Bounds of the model.                                                    *)
(***************************************************************************)
\* largest n_roots a caller asks for
MaxRoots == 5

(***************************************************************************)
(* Program constants.                                                      *)
(***************************************************************************)
\* _MIN_X = 1e-12, in thousandths
MIN_X == 0
\* max_expand passed by solve_kk to _bracket_around
MAX_EXPAND == 30
\* solve_kk asks for max(n_roots, 5) seeds
MIN_SEEDS == 5
\* math.pi in millionths
PI_MICRO == 3141593

Abs(v) == IF v < 0 THEN -v ELSE v

Max(u, v) == IF u >= v THEN u ELSE v

\* np.sign of an integer
Sign(v) == IF v > 0 THEN 1 ELSE IF v < 0 THEN -1 ELSE 0

\* x * num / den rounded to the nearest unit (x >= 0)
MulRound(x, num, den) == (x * num + den \div 2) \div den

\* steps of two pi
PiTimesTwice(k) == 2 * (k * 3141 + (k * 593 + 500) \div 1000)

\* k * pi in thousandths, k >= 0
PiTimes(k) == k * 3141 + (k * 593 + 500) \div 1000

(***************************************************************************)
(* 1) Geometry handling                                                    *)
(***************************************************************************)
\* required = ["Lambda_IR", "z_v", "epsilon"]
Required == <<"Lambda_IR", "z_v", "epsilon">>

\* the geometries a caller supplies: get_warp_params(k, Lambda_IR) for
\* Lambda_IR = 3 TeV and three curvatures k, named by epsilon = Lambda_IR / k
EpsDefault == "2.457e-16"

\* a nearly flat geometry: the roots of F are pi / (1 - epsilon) apart, the
\* first seed finds no bracket and the linear scan runs
EpsMild == "0.999"

\* the geometry whose first root of F is 1.2 times the first seed, so that F
\* is zero at the upper end of the first seed interval
EpsTuned == "0.020246"

\* the geometry with epsilon the ratio of the first two zeros of Y_0, so that
\* the first root of the gauge F is a zero of Y_0
EpsResonant == "0.225783"

\* a weakly warped geometry whose first root, 5355.639, is a point of the
\* linear scan: the last seed plus 1700 steps of pi
EpsAligned == "0.999413"

EpsValues == {EpsDefault, EpsMild, EpsTuned, EpsResonant, EpsAligned}

WarpParams(eps) ==
    [Lambda_IR |-> 3, z_v |-> 333, epsilon |-> eps, k |-> "k"]

\* a mapping restricted to some of its keys
Restrict(f, keys) == [key \in (DOMAIN f) \cap keys |-> f[key]]

\* a validation that reports the first missing key only
MissingKeysFirstOnly(geo) ==
    LET all == SelectSeq(Required, LAMBDA key : key \notin DOMAIN geo)
    IN  IF all = << >> THEN all ELSE <<all[1]>>

\* missing = [k for k in required if k not in g]
MissingKeys(geo) ==
    SelectSeq(Required, LAMBDA key : key \notin DOMAIN geo)

\* _validate_geometry: the copy g, or the ValueError naming the missing keys
validate_geometry(geo) ==
    LET g == [key \in DOMAIN geo |-> geo[key]]
        missing == MissingKeys(g)
    IN  IF missing # <<>>
        THEN [ok |-> FALSE, exc |-> "ValueError", missing |-> missing]
        ELSE [ok |-> TRUE, g |-> g]

(***************************************************************************)
(* 2) Boundary condition equations                                         *)
(***************************************************************************)
\* c is None, or <<v>> for the number v (in tenths)
NoC == << >>

\* an order selector that clamps negative orders to zero
nu_for_clamped(sp, b, cc) ==
    IF sp = "gauge"
    THEN IF b # "NN"
         THEN [ok |-> FALSE, exc |-> "ValueError", msg |-> "Gauge species requires bc='NN'"]
         ELSE [ok |-> TRUE, nu |-> 0, label |-> "nu=0 (gauge, NN)"]
    ELSE IF sp = "fermion"
    THEN IF cc = NoC
         THEN [ok |-> FALSE, exc |-> "ValueError", msg |-> "Fermion requires bulk mass parameter c"]
         ELSE LET alpha == Abs(cc[1] + 5)
              IN  IF b = "++"
                  THEN [ok |-> TRUE, nu |-> Max(alpha - 10, 0), label |-> "nu=alpha-1 (fermion, ++)"]
                  ELSE IF b = "--"
                  THEN [ok |-> TRUE, nu |-> alpha, label |-> "nu=alpha (fermion, --)"]
                  ELSE [ok |-> FALSE, exc |-> "ValueError", msg |-> "Fermion bc must be '++' or '--'"]
    ELSE [ok |-> FALSE, exc |-> "ValueError", msg |-> "Species must be 'gauge' or 'fermion'"]

\* an order selector that takes nu = 0 for a gauge field whatever its bc
nu_for_gauge_any_bc(sp, b, cc) ==
    IF sp = "gauge"
    THEN [ok |-> TRUE, nu |-> 0, label |-> "nu=0 (gauge, NN)"]
    ELSE IF sp = "fermion"
    THEN IF cc = NoC
         THEN [ok |-> FALSE, exc |-> "ValueError", msg |-> "Fermion requires bulk mass parameter c"]
         ELSE LET alpha == Abs(cc[1] + 5)
              IN  IF b = "++"
                  THEN [ok |-> TRUE, nu |-> alpha - 10, label |-> "nu=alpha-1 (fermion, ++)"]
                  ELSE IF b = "--"
                  THEN [ok |-> TRUE, nu |-> alpha, label |-> "nu=alpha (fermion, --)"]
                  ELSE [ok |-> FALSE, exc |-> "ValueError", msg |-> "Fermion bc must be '++' or '--'"]
    ELSE [ok |-> FALSE, exc |-> "ValueError", msg |-> "Species must be 'gauge' or 'fermion'"]

\* _nu_for: (nu, label), or the ValueError it raises
nu_for(sp, b, cc) ==
    IF sp = "gauge"
    THEN IF b # "NN"
         THEN [ok |-> FALSE, exc |-> "ValueError", msg |-> "Gauge species requires bc='NN'"]
         ELSE [ok |-> TRUE, nu |-> 0, label |-> "nu=0 (gauge, NN)"]
    ELSE IF sp = "fermion"
    THEN IF cc = NoC
         THEN [ok |-> FALSE, exc |-> "ValueError", msg |-> "Fermion requires bulk mass parameter c"]
         ELSE LET alpha == Abs(cc[1] + 5)
              IN  IF b = "++"
                  THEN [ok |-> TRUE, nu |-> alpha - 10, label |-> "nu=alpha-1 (fermion, ++)"]
                  ELSE IF b = "--"
                  THEN [ok |-> TRUE, nu |-> alpha, label |-> "nu=alpha (fermion, --)"]
                  ELSE [ok |-> FALSE, exc |-> "ValueError", msg |-> "Fermion bc must be '++' or '--'"]
    ELSE [ok |-> FALSE, exc |-> "ValueError", msg |-> "Species must be 'gauge' or 'fermion'"]

(***************************************************************************)
(* The zeros of the Bessel expressions, in thousandths, up to x = 58.      *)
(***************************************************************************)
\* zeros of jv(nu, x), x > 0
JvZeros(n) ==
    CASE n = 0 -> <<2405, 5520, 8654, 11792, 14931, 18071, 21212, 24352, 27493,
                    30635, 33776, 36917, 40058, 43200, 46341, 49483, 52624, 55766,
                    58907>>
      [] n = 10 \/ n = -10 ->
                  <<3832, 7016, 10173, 13324, 16471, 19616, 22760, 25904, 29047,
                    32190, 35332, 38475, 41617, 44759, 47901, 51044, 54186, 57328>>
      [] n = -9 -> <<648, 4016, 7187, 10340, 13488, 16634, 19778, 22921, 26064,
                    29207, 32350, 35492, 38634, 41776, 44919, 48061, 51202, 54344,
                    57486>>
      [] n = 1 -> <<2557, 5676, 8810, 11948, 15088, 18228, 21368, 24509, 27650,
                    30792, 33933, 37074, 40215, 43357, 46498, 49640, 52781, 55922,
                    59064>>

\* sign of jv(nu, x) just above x = 0
JvSign0(n) == IF n = -10 THEN -1 ELSE 1

\* zeros of jv(nu, x) * yv(nu, eps * x) - jv(nu, eps * x) * yv(nu, x), x > 0
\* the exact equation taken for its IR-only limit
CrossZerosIROnly(n, eps) == JvZeros(n)

CrossZeros(n, eps) ==
    CASE eps = EpsDefault /\ n = 0 ->
                  <<2449, 5566, 8700, 11838, 14978, 18118, 21259, 24400, 27541,
                    30683, 33824, 36965, 40107, 43248, 46390, 49531, 52673, 55815,
                    58956>>
      [] eps = EpsDefault /\ (n = 10 \/ n = -10) ->
                  <<3832, 7016, 10173, 13324, 16471, 19616, 22760, 25904, 29047,
                    32190, 35332, 38475, 41617, 44759, 47901, 51044, 54186, 57328>>
      [] eps = EpsDefault /\ n = -9 ->
                  <<3696, 6871, 10025, 13173, 16319, 19464, 22607, 25750, 28893,
                    32036, 35178, 38320, 41462, 44604, 47746, 50888, 54030, 57172>>
      [] eps = EpsDefault /\ n = 1 ->
                  <<2558, 5676, 8810, 11948, 15088, 18228, 21369, 24510, 27651,
                    30792, 33933, 37074, 40216, 43357, 46499, 49640, 52782, 55923,
                    59064>>
      [] eps = EpsTuned /\ n = 0 ->
                  <<2886, 6139, 9379, 12611, 15838, 19061, 22282, 25500, 28717,
                    31932, 35146, 38360, 41573, 44785, 47996, 51208, 54418, 57629>>
      [] eps = EpsMild /\ n = 0 ->
                  <<3141593, 6283185, 9424778, 12566371, 15707963, 18849556,
                    21991149>>
      [] eps = EpsAligned /\ n = 0 ->
                  <<5355639, 10711278, 16066917>>
      [] eps = EpsResonant /\ n = 0 ->
                  <<3958, 8055, 12131, 16198, 20262, 24324, 28385, 32445, 36505,
                    40564, 44623, 48682, 52741, 56799>>

\* sign of the cross product just above x = 0
CrossSign0(n, eps) == -1

\* the sign of a function with simple zeros zs that has sign s0 before the first
SignFromZeros(x, zs, s0) ==
    IF \E i \in 1..Len(zs) : zs[i] = x
    THEN 0
    ELSE IF Cardinality({i \in 1..Len(zs) : zs[i] < x}) % 2 = 0 THEN s0 ELSE -s0

\* an exact form that returns +1 everywhere at or below the floor
F_exact_floor_one(n, eps, x) ==
    IF x <= MIN_X
    THEN 1
    ELSE SignFromZeros(x, CrossZeros(n, eps), CrossSign0(n, eps))

\* sign of _F_exact(nu, eps)(x)
F_exact(n, eps, x) ==
    IF x <= MIN_X
    THEN Sign(x)
    ELSE SignFromZeros(x, CrossZeros(n, eps), CrossSign0(n, eps))

\* sign of _F_ironly(nu)(x)
F_ironly(n, x) ==
    IF x <= MIN_X
    THEN 1
    ELSE SignFromZeros(x, JvZeros(n), JvSign0(n))

\* zeros of the function F that solve_kk builds
FZeros(n, eps, ex) == IF ex THEN CrossZeros(n, eps) ELSE JvZeros(n)

(***************************************************************************)
(* 3) Root bracketing utilities                                            *)
(***************************************************************************)
\* jn_zeros(n, k): the first k positive zeros of J_n, n >= 0 an integer
jn_zeros(n, k) == SubSeq(JvZeros(10 * n), 1, k)

\* seeds from the asymptotic formula whatever the order
approx_jv_zeros_asymptotic(n, k) ==
    [i \in 1..k |-> ((20 * i + n - 5) * PI_MICRO + 10000) \div 20000]

\* _approx_jv_zeros
approx_jv_zeros(n, k) ==
    IF n % 10 = 0
    THEN jn_zeros(Abs(n \div 10), k)
    ELSE [i \in 1..k |-> ((20 * i + n - 5) * PI_MICRO + 10000) \div 20000]


\* a = max(x0 * (1.0 - rel), _MIN_X) for rel = 0.2
SeedLow(x0) == Max(MulRound(x0, 4, 5), MIN_X)

\* b = x0 * (1.0 + rel) for rel = 0.2
SeedHigh(x0) == MulRound(x0, 6, 5)

\* (max(p * 0.9, _MIN_X), p * 1.1): the small bracket around a zero at p
Straddle(p) == <<Max(MulRound(p, 9, 10), MIN_X), MulRound(p, 11, 10)>>

\* an expansion that moves the lower end up
ExpandLowUpward(lo) == Max(MulRound(lo, 5, 4), MIN_X)

\* a = max(a * 0.8, _MIN_X)
ExpandLow(lo) == Max(MulRound(lo, 4, 5), MIN_X)

\* b = b * 1.25
ExpandHigh(hi) == MulRound(hi, 5, 4)

(***************************************************************************)
(* 4) Main solver: the state of one solve_kk call                          *)
(***************************************************************************)
VARIABLES
    species, bc, c, caller_geo, n_req, exact, tol, x_max,  \* the arguments
    pc,          \* where the call is
    geometry,    \* the validated copy
    nu, nu_label,
    seeds, k,    \* the seeds and the index of the seed being tried
    brackets,    \* the brackets collected so far: (a, b), and the branch
                 \* of the search that produced the pair (by)
    a, b, n_expand,              \* _bracket_around's interval and loop count
    x_prev, n_steps, extra,      \* _scan_for_brackets' state
    n_needed,
    warned,      \* warnings.warn was called
    n_roots,     \* the local n_roots (reassigned at line 279)
    xs,          \* the roots found so far
    calls,       \* the brentq calls made so far: bracket index, interval, outcome
    masses, bvals, extras,       \* the result
    error,       \* the exception that left solve_kk
    probe,       \* an evaluation of _F_exact(nu, eps) or _F_ironly(nu) at a point
    other        \* the call that runs concurrently with this one, while suspended

inputs == <<species, bc, c, caller_geo, n_req, exact, tol, x_max>>

outside == <<probe, other>>

search == <<seeds, k, brackets, a, b, n_expand>>

scan == <<x_prev, n_steps, extra, n_needed>>

result == <<masses, bvals, extras>>

vars == <<inputs, pc, geometry, nu, nu_label, search, scan, warned, n_roots,
          xs, calls, result, error, outside>>

\* the tolerances a caller passes: the default, one brentq rejects with
\* ValueError (xtol <= 0), and one that is not a number (TypeError)
TolDefault == "1e-12"

TolZero == "0.0"

TolNone == "None"

CValues == {-15, -5, -4, 5}

AllSpecies == {"gauge", "fermion", "scalar"}

AllBC == {"NN", "++", "--", "+-"}

AllKeys == {"Lambda_IR", "z_v", "epsilon", "k"}

\* x_max = 200.0, the default
XMaxDefault == 200000

NoError == [exc |-> "none"]

Start ==
    /\ pc = "validate"
    /\ geometry = << >>
    /\ nu = 0
    /\ nu_label = ""
    /\ seeds = << >>
    /\ k = 1
    /\ brackets = << >>
    /\ a = 0
    /\ b = 0
    /\ n_expand = 0
    /\ x_prev = 0
    /\ n_steps = 0
    /\ extra = << >>
    /\ n_needed = 0
    /\ warned = FALSE
    /\ n_roots = n_req
    /\ xs = << >>
    /\ calls = << >>
    /\ masses = << >>
    /\ bvals = << >>
    /\ extras = << >>
    /\ error = NoError

\* any request, any subset of the geometry keys, default numerics
InitRequests ==
    /\ species \in AllSpecies
    /\ bc \in AllBC
    /\ c \in {<<v>> : v \in CValues} \cup {NoC}
    /\ \E keys \in SUBSET AllKeys : caller_geo = Restrict(WarpParams(EpsDefault), keys)
    /\ n_req = 3
    /\ exact = TRUE
    /\ tol = TolDefault
    /\ x_max = XMaxDefault

\* supported requests in the default geometry, any numerics
InitDefault ==
    /\ \/ species = "gauge" /\ bc = "NN" /\ c = NoC
       \/ species = "fermion" /\ bc \in {"++", "--"} /\ c \in {<<v>> : v \in CValues}
    /\ caller_geo = WarpParams(EpsDefault)
    /\ n_req \in 1..MaxRoots
    /\ exact \in BOOLEAN
    /\ tol \in {TolDefault, TolZero, TolNone}
    /\ x_max \in {5000, XMaxDefault}

\* the gauge request in a weakly warped geometry
InitMild ==
    /\ species = "gauge" /\ bc = "NN" /\ c = NoC
    /\ caller_geo = WarpParams(EpsMild)
    /\ n_req \in 1..MaxRoots
    /\ exact = TRUE
    /\ tol \in {TolDefault, TolZero, TolNone}
    /\ x_max \in {5000, XMaxDefault, 3141000}

\* the gauge request in the geometry whose first root is 1.2 times the first seed
InitTuned ==
    /\ species = "gauge" /\ bc = "NN" /\ c = NoC
    /\ caller_geo = WarpParams(EpsTuned)
    /\ n_req \in 1..MaxRoots
    /\ exact = TRUE
    /\ tol = TolDefault
    /\ x_max = XMaxDefault

\* the IR scales and IR brane positions of the rescaled geometries
LambdaValues == {3, 6}

ZvValues == {333, 167}

\* a caller's mapping with the entries Lambda_IR and z_v replaced
GeometryFor(eps, lam, zv) ==
    [WarpParams(eps) EXCEPT !["Lambda_IR"] = lam, !["z_v"] = zv]

\* supported requests in the default warping with Lambda_IR and z_v rescaled
InitScaled ==
    /\ \/ species = "gauge" /\ bc = "NN" /\ c = NoC
       \/ species = "fermion" /\ bc \in {"++", "--"} /\ c \in {<<v>> : v \in CValues}
    /\ \E lam \in LambdaValues, zv \in ZvValues :
          caller_geo = GeometryFor(EpsDefault, lam, zv)
    /\ n_req \in 1..MaxRoots
    /\ exact \in BOOLEAN
    /\ tol = TolDefault
    /\ x_max = XMaxDefault

\* the gauge request in the geometry whose first root is a zero of Y_0
InitResonant ==
    /\ species = "gauge" /\ bc = "NN" /\ c = NoC
    /\ caller_geo = WarpParams(EpsResonant)
    /\ n_req \in 1..MaxRoots
    /\ exact = TRUE
    /\ tol = TolDefault
    /\ x_max = XMaxDefault

\* the gauge request in the geometry whose first root is a scan point
InitAligned ==
    /\ species = "gauge" /\ bc = "NN" /\ c = NoC
    /\ caller_geo = WarpParams(EpsAligned)
    /\ n_req = MIN_SEEDS
    /\ exact = TRUE
    /\ tol = TolDefault
    /\ x_max = 5400000

\* no evaluation of F outside a call
NoProbe == [form |-> "none"]

\* no concurrent call
NoCall == [pc |-> "none"]

Init ==
    /\ \/ InitRequests \/ InitDefault \/ InitMild \/ InitTuned \/ InitScaled
       \/ InitResonant \/ InitAligned
    /\ Start
    /\ probe = NoProbe
    /\ other = NoCall

\* sign of F(x) for the F built at line 257
F(x) == IF exact THEN F_exact(nu, geometry["epsilon"], x) ELSE F_ironly(nu, x)

\* a validation that normalises the caller's mapping in place
ValidateInPlace ==
    /\ pc = "validate"
    /\ LET r == validate_geometry(caller_geo)
       IN  IF r.ok
           THEN /\ geometry' = r.g
                /\ caller_geo' = [key \in DOMAIN caller_geo \cup {"rc"} |->
                                     IF key \in DOMAIN caller_geo
                                     THEN caller_geo[key] ELSE "rc"]
                /\ pc' = "order"
                /\ error' = error
           ELSE /\ geometry' = geometry
                /\ caller_geo' = caller_geo
                /\ pc' = "raised"
                /\ error' = [exc |-> r.exc, from |-> "_validate_geometry",
                             missing |-> r.missing]
    /\ UNCHANGED <<outside, species, bc, c, n_req, exact, tol, x_max, nu,
                   nu_label, search, scan, warned, n_roots, xs, calls, result>>

\* lines 247-251: geometry = _validate_geometry(geometry)
Validate ==
    /\ pc = "validate"
    /\ LET r == validate_geometry(caller_geo)
       IN  IF r.ok
           THEN /\ geometry' = r.g
                /\ pc' = "order"
                /\ error' = error
           ELSE /\ geometry' = geometry
                /\ pc' = "raised"
                /\ error' = [exc |-> r.exc, from |-> "_validate_geometry",
                             missing |-> r.missing]
    /\ UNCHANGED <<outside, inputs, nu, nu_label, search, scan, warned, n_roots, xs,
                   calls, result>>

\* line 254: nu, nu_label = _nu_for(species, bc, c)
SelectOrder ==
    /\ pc = "order"
    /\ LET r == nu_for(species, bc, c)
       IN  IF r.ok
           THEN /\ nu' = r.nu
                /\ nu_label' = r.label
                /\ pc' = "seeds"
                /\ error' = error
           ELSE /\ nu' = nu
                /\ nu_label' = nu_label
                /\ pc' = "raised"
                /\ error' = [exc |-> r.exc, from |-> "_nu_for", msg |-> r.msg]
    /\ UNCHANGED <<outside, inputs, geometry, search, scan, warned, n_roots, xs, calls,
                   result>>

\* lines 257-261: F is built, the seeds are generated, brackets = []
MakeSeeds ==
    /\ pc = "seeds"
    /\ seeds' = approx_jv_zeros(nu, Max(n_roots, MIN_SEEDS))
    /\ k' = 1
    /\ brackets' = << >>
    /\ pc' = "seed"
    /\ UNCHANGED <<outside, inputs, geometry, nu, nu_label, a, b, n_expand, scan, warned,
                   n_roots, xs, calls, result, error>>


Min(u, v) == IF u <= v THEN u ELSE v

Bracket(lo, hi, how) == [a |-> lo, b |-> hi, by |-> how]

\* a bracketing that returns the first interval without looking at the signs
bracket_start_unchecked(x0) ==
    [found |-> TRUE, br |-> Bracket(SeedLow(x0), SeedHigh(x0), "seed")]

\* _bracket_around, lines 155-164: the bracket found at once, or the interval
\* the expansion loop starts from
bracket_start(x0) ==
    LET lo == SeedLow(x0)
        hi == SeedHigh(x0)
        fa == F(lo)
        fb == F(hi)
    IN  IF fa = 0
        THEN [found |-> TRUE, br |-> Bracket(Straddle(lo)[1], Straddle(lo)[2], "zero")]
        ELSE IF fb = 0
        THEN [found |-> TRUE, br |-> Bracket(Straddle(hi)[1], Straddle(hi)[2], "zero")]
        ELSE IF fa # fb
        THEN [found |-> TRUE, br |-> Bracket(lo, hi, "seed")]
        ELSE [found |-> FALSE, a |-> lo, b |-> hi]

\* lines 264-266: the loop over the seeds ends
SeedsDone ==
    /\ pc = "seed"
    /\ k > Len(seeds) \/ Len(brackets) >= n_roots
    /\ pc' = "after_seeds"
    /\ UNCHANGED <<outside, inputs, geometry, nu, nu_label, search, scan, warned, n_roots,
                   xs, calls, result, error>>

\* lines 267-269 with 155-164: the seed's first interval is a bracket
SeedBracket ==
    /\ pc = "seed"
    /\ k <= Len(seeds)
    /\ Len(brackets) < n_roots
    /\ bracket_start(seeds[k]).found
    /\ brackets' = Append(brackets, bracket_start(seeds[k]).br)
    /\ k' = k + 1
    /\ UNCHANGED <<outside, inputs, pc, geometry, nu, nu_label, seeds, a, b, n_expand,
                   scan, warned, n_roots, xs, calls, result, error>>

\* lines 155-164: no sign change on the first interval, the expansion loop starts
SeedExpand ==
    /\ pc = "seed"
    /\ k <= Len(seeds)
    /\ Len(brackets) < n_roots
    /\ ~bracket_start(seeds[k]).found
    /\ a' = bracket_start(seeds[k]).a
    /\ b' = bracket_start(seeds[k]).b
    /\ n_expand' = 0
    /\ pc' = "expand"
    /\ UNCHANGED <<outside, inputs, geometry, nu, nu_label, seeds, k, brackets, scan,
                   warned, n_roots, xs, calls, result, error>>

\* an expansion loop without the max_expand budget
ExpandStepUnbounded ==
    /\ pc = "expand"
    /\ LET lo == ExpandLow(a)
           hi == ExpandHigh(b)
       IN  /\ a' = lo
           /\ b' = hi
           /\ n_expand' = n_expand + 1
           /\ IF F(lo) # F(hi)
              THEN /\ brackets' = Append(brackets, Bracket(lo, hi, "expand"))
                   /\ k' = k + 1
                   /\ pc' = "seed"
              ELSE UNCHANGED <<brackets, k, pc>>
    /\ UNCHANGED <<outside, inputs, geometry, nu, nu_label, seeds, scan, warned, n_roots,
                   xs, calls, result, error>>

\* lines 167-173: one pass of the expansion loop
ExpandStep ==
    /\ pc = "expand"
    /\ n_expand < MAX_EXPAND
    /\ LET lo == ExpandLow(a)
           hi == ExpandHigh(b)
       IN  /\ a' = lo
           /\ b' = hi
           /\ n_expand' = n_expand + 1
           /\ IF F(lo) # F(hi)
              THEN /\ brackets' = Append(brackets, Bracket(lo, hi, "expand"))
                   /\ k' = k + 1
                   /\ pc' = "seed"
              ELSE UNCHANGED <<brackets, k, pc>>
    /\ UNCHANGED <<outside, inputs, geometry, nu, nu_label, seeds, scan, warned, n_roots,
                   xs, calls, result, error>>

\* line 174: the loop ran max_expand times, _bracket_around returns None
ExpandGiveUp ==
    /\ pc = "expand"
    /\ n_expand >= MAX_EXPAND
    /\ k' = k + 1
    /\ pc' = "seed"
    /\ UNCHANGED <<outside, inputs, geometry, nu, nu_label, seeds, brackets, a, b,
                   n_expand, scan, warned, n_roots, xs, calls, result, error>>

\* x_start = seeds[-1] if len(seeds) else 0.5, then max(x_start, _MIN_X)
ScanStart == Max(IF Len(seeds) > 0 THEN seeds[Len(seeds)] ELSE 500, MIN_X)

\* the point the scan reaches after n steps of math.pi
ScanX(n) == ScanStart + PiTimes(n)

\* a scan that is asked for n_roots brackets, not for the missing ones
ScanBeginAsksAll ==
    /\ pc = "after_seeds"
    /\ Len(brackets) < n_roots
    /\ x_prev' = ScanStart
    /\ n_steps' = 0
    /\ extra' = << >>
    /\ n_needed' = n_roots
    /\ pc' = "scan"
    /\ UNCHANGED <<outside, inputs, geometry, nu, nu_label, search, warned, n_roots, xs,
                   calls, result, error>>

\* lines 272-274 with 185-188: the linear scan is entered
ScanBegin ==
    /\ pc = "after_seeds"
    /\ Len(brackets) < n_roots
    /\ x_prev' = ScanStart
    /\ n_steps' = 0
    /\ extra' = << >>
    /\ n_needed' = n_roots - Len(brackets)
    /\ pc' = "scan"
    /\ UNCHANGED <<outside, inputs, geometry, nu, nu_label, search, warned, n_roots, xs,
                   calls, result, error>>

\* line 272: enough brackets, no scan
ScanSkip ==
    /\ pc = "after_seeds"
    /\ Len(brackets) >= n_roots
    /\ pc' = "check"
    /\ UNCHANGED <<outside, inputs, geometry, nu, nu_label, search, scan, warned, n_roots,
                   xs, calls, result, error>>

\* a scan loop that does not stop at x_max
ScanStepPastXmax ==
    /\ pc = "scan"
    /\ Len(extra) < n_needed
    /\ LET x == ScanX(n_steps + 1)
       IN  /\ extra' = IF F(x_prev) = 0
                       THEN Append(extra, Bracket(Straddle(x_prev)[1],
                                                  Straddle(x_prev)[2], "scan_zero"))
                       ELSE IF F(x_prev) # F(x)
                       THEN Append(extra, Bracket(x_prev, x, "scan"))
                       ELSE extra
           /\ x_prev' = x
           /\ n_steps' = n_steps + 1
    /\ UNCHANGED <<outside, inputs, pc, geometry, nu, nu_label, search, n_needed, warned,
                   n_roots, xs, calls, result, error>>

\* lines 189-197: one pass of the scan loop
ScanStep ==
    /\ pc = "scan"
    /\ Len(extra) < n_needed
    /\ x_prev < x_max
    /\ LET x == ScanX(n_steps + 1)
       IN  /\ extra' = IF F(x_prev) = 0
                       THEN Append(extra, Bracket(Straddle(x_prev)[1],
                                                  Straddle(x_prev)[2], "scan_zero"))
                       ELSE IF F(x_prev) # F(x)
                       THEN Append(extra, Bracket(x_prev, x, "scan"))
                       ELSE extra
           /\ x_prev' = x
           /\ n_steps' = n_steps + 1
    /\ UNCHANGED <<outside, inputs, pc, geometry, nu, nu_label, search, n_needed, warned,
                   n_roots, xs, calls, result, error>>

\* lines 198 and 275: the scan returns, brackets.extend(extra)
ScanEnd ==
    /\ pc = "scan"
    /\ ~(Len(extra) < n_needed /\ x_prev < x_max)
    /\ brackets' = brackets \o extra
    /\ pc' = "check"
    /\ UNCHANGED <<outside, inputs, geometry, nu, nu_label, seeds, k, a, b, n_expand, scan,
                   warned, n_roots, xs, calls, result, error>>

\* a shortfall that is handled without the warning
WarnShortSilent ==
    /\ pc = "check"
    /\ Len(brackets) < n_roots
    /\ warned' = FALSE
    /\ n_roots' = Len(brackets)
    /\ pc' = "refine"
    /\ UNCHANGED <<outside, inputs, geometry, nu, nu_label, search, scan, xs, calls,
                   result, error>>

\* lines 277-279: fewer brackets than asked for
WarnShort ==
    /\ pc = "check"
    /\ Len(brackets) < n_roots
    /\ warned' = TRUE
    /\ n_roots' = Len(brackets)
    /\ pc' = "refine"
    /\ UNCHANGED <<outside, inputs, geometry, nu, nu_label, search, scan, xs, calls,
                   result, error>>

\* line 277: the test fails
NoWarn ==
    /\ pc = "check"
    /\ Len(brackets) >= n_roots
    /\ pc' = "refine"
    /\ UNCHANGED <<outside, inputs, geometry, nu, nu_label, search, scan, warned, n_roots,
                   xs, calls, result, error>>


(***************************************************************************)
(* Root refinement                                                         *)
(***************************************************************************)
\* the zeros of F strictly inside (lo, hi)
ZerosInside(lo, hi) ==
    LET zs == FZeros(nu, geometry["epsilon"], exact)
    IN  {zs[i] : i \in {j \in 1..Len(zs) : lo < zs[j] /\ zs[j] < hi}}

\* brentq(F, lo, hi, xtol=tol, rtol=tol, maxiter=200): the outcomes of the call.
\* It checks its tolerances first (a tolerance that is not a number fails the
\* comparison with TypeError, xtol <= 0 raises ValueError), returns an endpoint
\* where F is zero, raises ValueError when F has the same sign at both ends and
\* otherwise converges to a zero of F inside the interval.
\* The tolerance is passed as xtol and rtol, the tolerances on x: the iteration
\* stops when the interval that holds the sign change is shorter than
\* xtol + rtol * |x|, whatever |F(x)| is there, so the residual of a converged
\* root is on either side of tol; at an endpoint returned because F is zero
\* there the residual is zero.
Residuals == {"within", "above"}

\* a root finder that stops at the middle of the interval
brentq_midpoint(lo, hi) ==
    IF tol = TolNone THEN {[kind |-> "TypeError"]}
    ELSE IF tol = TolZero THEN {[kind |-> "ValueError"]}
    ELSE IF F(lo) = F(hi) THEN {[kind |-> "ValueError"]}
    ELSE {[kind |-> "root", x |-> (lo + hi) \div 2, resid |-> r] : r \in Residuals}

brentq(lo, hi) ==
    IF tol = TolNone THEN {[kind |-> "TypeError"]}
    ELSE IF tol = TolZero THEN {[kind |-> "ValueError"]}
    ELSE IF F(lo) = 0 THEN {[kind |-> "root", x |-> lo, resid |-> "zero"]}
    ELSE IF F(hi) = 0 THEN {[kind |-> "root", x |-> hi, resid |-> "zero"]}
    ELSE IF F(lo) = F(hi) THEN {[kind |-> "ValueError"]}
    ELSE {[kind |-> "root", x |-> z, resid |-> r] :
             z \in ZerosInside(lo, hi), r \in Residuals}

\* brackets[:n_roots]
ToRefine == SubSeq(brackets, 1, Min(n_roots, Len(brackets)))

\* a retry on the same lower end
NudgeLowNone(lo) == Max(lo, MIN_X)

\* aa = max(a * 0.99, _MIN_X)
NudgeLow(lo) == Max(MulRound(lo, 99, 100), MIN_X)

\* bb = b * 1.01
NudgeHigh(hi) == MulRound(hi, 101, 100)

\* maxiter passed to brentq
MAXITER == 200

Call(i, lo, hi, out) ==
    [bracket |-> i, a |-> lo, b |-> hi, outcome |-> out.kind, maxiter |-> MAXITER,
     xtol |-> tol, rtol |-> tol,
     resid |-> IF out.kind = "root" THEN out.resid ELSE "none"]

\* lines 283-285 and 291: brentq on the next bracket
Refine ==
    /\ pc = "refine"
    /\ Len(xs) < Len(ToRefine)
    /\ LET i == Len(xs) + 1
           br == ToRefine[i]
       IN  \E out \in brentq(br.a, br.b) :
             /\ calls' = Append(calls, Call(i, br.a, br.b, out))
             /\ IF out.kind = "root"
                THEN /\ xs' = Append(xs, out.x)
                     /\ UNCHANGED <<pc, error>>
                ELSE IF out.kind = "ValueError"
                THEN /\ pc' = "retry"
                     /\ UNCHANGED <<xs, error>>
                ELSE /\ pc' = "raised"
                     /\ error' = [exc |-> out.kind, from |-> "brentq"]
                     /\ xs' = xs
    /\ UNCHANGED <<outside, inputs, geometry, nu, nu_label, search, scan, warned, n_roots,
                   result>>

\* a retry whose failure is swallowed: the lower end stands in for the root
RetryGoesOn ==
    /\ pc = "retry"
    /\ LET i == Len(xs) + 1
           br == ToRefine[i]
           aa == NudgeLow(br.a)
           bb == NudgeHigh(br.b)
       IN  \E out \in brentq(aa, bb) :
             /\ calls' = Append(calls, Call(i, aa, bb, out))
             /\ xs' = Append(xs, IF out.kind = "root" THEN out.x ELSE br.a)
             /\ pc' = "refine"
             /\ error' = error
    /\ UNCHANGED <<outside, inputs, geometry, nu, nu_label, search, scan, warned, n_roots,
                   result>>

\* lines 286-291: the except clause, brentq once more on the nudged interval
Retry ==
    /\ pc = "retry"
    /\ LET i == Len(xs) + 1
           br == ToRefine[i]
           aa == NudgeLow(br.a)
           bb == NudgeHigh(br.b)
       IN  \E out \in brentq(aa, bb) :
             /\ calls' = Append(calls, Call(i, aa, bb, out))
             /\ IF out.kind = "root"
                THEN /\ xs' = Append(xs, out.x)
                     /\ pc' = "refine"
                     /\ error' = error
                ELSE /\ pc' = "raised"
                     /\ error' = [exc |-> out.kind, from |-> "brentq"]
                     /\ xs' = xs
    /\ UNCHANGED <<outside, inputs, geometry, nu, nu_label, search, scan, warned, n_roots,
                   result>>

(***************************************************************************)
(* Spectrum assembly                                                       *)
(***************************************************************************)
\* the zeros of Y_nu up to x = 58, in thousandths; Y_nu(x) is zero exactly
\* where x is a tabulated zero (the roots beyond the table are those of
\* EpsMild, multiples of pi / (1 - epsilon), which are no zeros of Y_0)
YvZeros(n) ==
    CASE n = 0 -> <<894, 3958, 7086, 10222, 13361, 16501, 19641, 22782, 25923, 29064, 32205, 35346, 38488, 41629, 44770, 47912, 51053, 54195, 57336>>
      [] n = 10 \/ n = -10 -> <<2197, 5430, 8596, 11749, 14897, 18043, 21188, 24332, 27475, 30618, 33761, 36904, 40046, 43188, 46330, 49473, 52615, 55757, 58898>>
      [] n = -9 -> <<2404, 5606, 8765, 11915, 15061, 18206, 21350, 24493, 27636, 30779, 33921, 37063, 40205, 43348, 46490, 49632, 52773, 55915, 59057>>
      [] n = 1 -> <<1036, 4112, 7242, 10379, 13518, 16658, 19798, 22939, 26080, 29221, 32362, 35503, 38645, 41786, 44927, 48069, 51210, 54352, 57493>>

\* xp = eps * x, in thousandths; in the default geometry xp is of order 1e-15
EpsTimes(eps, x) ==
    CASE eps = EpsDefault -> 0
      [] eps = EpsMild -> MulRound(x, 999, 1000)
      [] eps = EpsTuned -> MulRound(x, 20, 1000)
      [] eps = EpsResonant -> MulRound(x, 226, 1000)
      [] eps = EpsAligned -> MulRound(x, 999, 1000)

\* abs(denom) < 1e-300 for denom = yv(nu, x) (exact) or yv(nu, eps * x)
DenomUnderflows(x) ==
    LET arg == IF exact THEN x ELSE EpsTimes(geometry["epsilon"], x)
    IN  \E i \in 1..Len(YvZeros(nu)) : YvZeros(nu)[i] = arg

\* a coefficient computed without the test of the denominator
b_n_unguarded(x) ==
    IF exact THEN "-jv(nu,x)/yv(nu,x)" ELSE "-jv(nu,eps*x)/yv(nu,eps*x)"

\* lines 299-314: b_n for one root
b_n(x) ==
    IF exact
    THEN IF DenomUnderflows(x) THEN "nan" ELSE "-jv(nu,x)/yv(nu,x)"
    ELSE IF DenomUnderflows(x) THEN "nan" ELSE "-jv(nu,eps*x)/yv(nu,eps*x)"

\* an assembly that takes the mass scale from z_v: m = x / z_v
AssembleFromZv ==
    /\ pc = "refine"
    /\ Len(xs) = Len(ToRefine)
    /\ masses' = [i \in 1..Len(xs) |-> (xs[i] * 1000) \div geometry["z_v"]]
    /\ bvals' = [i \in 1..Len(xs) |-> b_n(xs[i])]
    /\ extras' = [x |-> xs,
                  b |-> [i \in 1..Len(xs) |-> b_n(xs[i])],
                  nu |-> nu,
                  labels |-> [nu_label |-> nu_label, species |-> species,
                              bc |-> bc, exact |-> exact],
                  geometry |-> geometry]
    /\ pc' = "done"
    /\ UNCHANGED <<outside, inputs, geometry, nu, nu_label, search, scan, warned, n_roots,
                   xs, calls, error>>

\* an assembly whose labels leave out how the order was chosen
AssembleNoOrderLabel ==
    /\ pc = "refine"
    /\ Len(xs) = Len(ToRefine)
    /\ masses' = [i \in 1..Len(xs) |-> xs[i] * geometry["Lambda_IR"]]
    /\ bvals' = [i \in 1..Len(xs) |-> b_n(xs[i])]
    /\ extras' = [x |-> xs,
                  b |-> [i \in 1..Len(xs) |-> b_n(xs[i])],
                  nu |-> nu,
                  labels |-> [species |-> species, bc |-> bc, exact |-> exact],
                  geometry |-> geometry]
    /\ pc' = "done"
    /\ UNCHANGED <<outside, inputs, geometry, nu, nu_label, search, scan, warned,
                   n_roots, xs, calls, error>>

\* lines 292-324: masses, coefficients and extras, and the return
Assemble ==
    /\ pc = "refine"
    /\ Len(xs) = Len(ToRefine)
    /\ masses' = [i \in 1..Len(xs) |-> xs[i] * geometry["Lambda_IR"]]
    /\ bvals' = [i \in 1..Len(xs) |-> b_n(xs[i])]
    /\ extras' = [x |-> xs,
                  b |-> [i \in 1..Len(xs) |-> b_n(xs[i])],
                  nu |-> nu,
                  labels |-> [nu_label |-> nu_label, species |-> species,
                              bc |-> bc, exact |-> exact],
                  geometry |-> geometry]
    /\ pc' = "done"
    /\ UNCHANGED <<outside, inputs, geometry, nu, nu_label, search, scan, warned, n_roots,
                   xs, calls, error>>

Next ==
    \/ Validate
    \/ SelectOrder
    \/ MakeSeeds
    \/ SeedsDone
    \/ SeedBracket
    \/ SeedExpand
    \/ ExpandStep
    \/ ExpandGiveUp
    \/ ScanBegin
    \/ ScanSkip
    \/ ScanStep
    \/ ScanEnd
    \/ WarnShort
    \/ NoWarn
    \/ Refine
    \/ Retry
    \/ Assemble

Spec == Init /\ [][Next]_vars


(***************************************************************************)
(* Properties                                                              *)
(***************************************************************************)
\* the zeros of the F of this call, in increasing order
TrueRoots == FZeros(nu, geometry["epsilon"], exact)

\* solve_kk returned (masses, extras)
Returned == pc = "done"

\* C1: solve_kk returns the first n_roots positive roots of F in order: the
\* i-th returned root is the i-th smallest positive root of F.
C1_FirstRootsInOrder ==
    Returned => \A i \in 1..Len(extras.x) : extras.x[i] = TrueRoots[i]

\* C2: the returned dimensionless roots are strictly increasing.
C2_StrictlyIncreasing ==
    Returned => \A i \in 1..(Len(extras.x) - 1) : extras.x[i] < extras.x[i + 1]

\* the number of roots of F below xm
RootsBelow(xm) == Cardinality({i \in 1..Len(TrueRoots) : TrueRoots[i] < xm})

\* C3 as stated: whenever n_roots is larger than the number of roots of F
\* below x_max, the call returns fewer than n_roots modes and warns.
C3_ShortWheneverFewRootsBelowXmax ==
    (Returned /\ n_req > RootsBelow(x_max)) => (Len(masses) < n_req /\ warned)

\* C3 as amended: x_max bounds the linear scan only.  The scan takes a step
\* only from a point below x_max and its brackets start below x_max; nothing
\* is raised during the bracket search; and a call that returns fewer than
\* n_roots modes has warned, after a scan that ran up to x_max.
C3_XmaxBoundsTheScanOnly ==
    /\ n_steps > 0 => ScanX(n_steps - 1) < x_max
    /\ \A i \in 1..Len(brackets) : brackets[i].by = "scan" => brackets[i].a < x_max
    /\ pc \in {"seed", "expand", "after_seeds", "scan", "check"} => error = NoError
    /\ (Returned /\ Len(masses) < n_req) => (warned /\ x_prev >= x_max)

\* C3: a call that came back short, with the warning, after the scan reached x_max
C3_Witness ==
    /\ Returned
    /\ warned
    /\ Len(masses) < n_req
    /\ n_steps > 0
    /\ x_prev >= x_max

\* C4: never more modes than asked for; masses, roots and coefficients have
\* the same length; the warning is emitted exactly when fewer than n_roots
\* brackets were found after both strategies; the shortfall raises nothing
\* (a call that warned never raises with a usable tolerance, and otherwise
\* only brentq raises) and the call returns one mode per bracket found.
C4_CountsAndWarning ==
    /\ Returned => /\ Len(masses) <= n_req
                   /\ Len(extras.x) = Len(masses)
                   /\ Len(extras.b) = Len(masses)
                   /\ Len(bvals) = Len(masses)
    /\ pc \in {"refine", "retry", "done"} => (warned <=> Len(brackets) < n_req)
    /\ (Returned /\ warned) => Len(masses) = Len(brackets)
    /\ (pc = "raised" /\ warned) => error.from = "brentq"
    /\ (warned /\ tol = TolDefault) => pc # "raised"

\* C4: a short spectrum, one mode per bracket found
C4_Witness ==
    /\ Returned
    /\ warned
    /\ Len(brackets) \in 1..(n_req - 1)
    /\ Len(masses) = Len(brackets)

IsFirstCall(j) == j = 1 \/ calls[j - 1].bracket # calls[j].bracket

\* call j is on its bracket's interval nudged outward by 1%
IsNudged(j) ==
    LET br == brackets[calls[j].bracket]
    IN  /\ calls[j].a = Max((99 * br.a + 50) \div 100, MIN_X)
        /\ calls[j].b = (101 * br.b + 50) \div 100

\* call j is followed by the one retry (or the retry is the next step)
IsRetried(j) ==
    IF j = Len(calls)
    THEN pc = "retry"
    ELSE calls[j + 1].bracket = calls[j].bracket /\ IsNudged(j + 1)

\* C6 as stated: every kind of failure of the first call on a bracket gets
\* the one retry on [max(0.99 a, floor), 1.01 b].
C6_EveryFailureRetried ==
    \A j \in 1..Len(calls) :
        (IsFirstCall(j) /\ calls[j].outcome # "root") => IsRetried(j)

\* C6 as amended: a first call that raises ValueError is retried exactly once
\* on [max(0.99 a, floor), 1.01 b]; a first call that fails otherwise is not
\* retried and its exception leaves solve_kk; any exception of the retry
\* leaves solve_kk; brentq is called at most twice per bracket.
C6_ValueErrorRetriedOnce ==
    \A j \in 1..Len(calls) :
        /\ calls[j].a = brackets[calls[j].bracket].a \/ IsNudged(j)
        /\ IsFirstCall(j) =>
              /\ calls[j].a = brackets[calls[j].bracket].a
              /\ calls[j].b = brackets[calls[j].bracket].b
              /\ calls[j].outcome = "ValueError" => IsRetried(j)
              /\ calls[j].outcome \notin {"root", "ValueError"} =>
                    /\ j = Len(calls)
                    /\ pc = "raised"
                    /\ error.exc = calls[j].outcome
        /\ ~IsFirstCall(j) =>
              /\ IsFirstCall(j - 1)
              /\ calls[j - 1].outcome = "ValueError"
              /\ IsNudged(j)
              /\ calls[j].outcome # "root" =>
                    /\ j = Len(calls)
                    /\ pc = "raised"
                    /\ error.exc = calls[j].outcome

\* C6: a first call failed, the retry on the nudged interval failed too
C6_Witness ==
    /\ pc = "raised"
    /\ Len(calls) = 2
    /\ calls[1].outcome = "ValueError"
    /\ calls[2].bracket = calls[1].bracket
    /\ calls[2].a # calls[1].a

\* a brentq failure ended the refinement of some bracket
RefinementFailed ==
    \E j \in 1..Len(calls) :
        /\ calls[j].outcome # "root"
        /\ ~(IsFirstCall(j) /\ calls[j].outcome = "ValueError")

\* C7 as stated: when the refiner fails on one bracket even after the retry,
\* the roots of the other brackets of the call still reach the caller.
C7_OtherRootsStillReturned ==
    RefinementFailed =>
        (pc \in {"done", "raised"} => Len(masses) >= Len(ToRefine) - 1)

\* C7 as amended: a refinement failure that is not cured by the retry leaves
\* solve_kk as an exception, at once; the call returns nothing, so no root of
\* any bracket of that call reaches the caller.
C7_FailureAbortsTheCall ==
    /\ RefinementFailed =>
          /\ pc = "raised"
          /\ error.from = "brentq"
          /\ calls[Len(calls)].outcome = error.exc
          /\ Len(xs) = calls[Len(calls)].bracket - 1
    /\ pc = "raised" => (masses = << >> /\ bvals = << >> /\ extras = << >>)

\* C7: the refiner failed after the retry while other brackets were waiting
C7_Witness ==
    /\ pc = "raised"
    /\ error.from = "brentq"
    /\ Len(calls) = 2
    /\ Len(ToRefine) >= 2

\* the order of section 4.2, in tenths
ExpectedNu(sp, bcs, cc) ==
    IF sp = "gauge" THEN 0
    ELSE IF bcs = "++" THEN (IF cc[1] + 5 < 0 THEN -(cc[1] + 5) ELSE cc[1] + 5) - 10
    ELSE IF cc[1] + 5 < 0 THEN -(cc[1] + 5) ELSE cc[1] + 5

\* C8: nu is gauge/NN -> 0, fermion/++ -> |c + 0.5| - 1, fermion/-- ->
\* |c + 0.5|, negative values unclamped, so nu(++) = nu(--) - 1 >= -1; and
\* the nu of the diagnostics is the one the seeds and F were built from.
C8_OrderSelection ==
    /\ pc \in {"seeds", "seed", "expand", "after_seeds", "scan", "check",
               "refine", "retry", "done"}
          => /\ nu = ExpectedNu(species, bc, c)
             /\ nu >= -10
    /\ c # NoC => /\ nu_for("fermion", "++", c).nu = nu_for("fermion", "--", c).nu - 10
                  /\ nu_for("fermion", "++", c).nu >= -10
                  /\ nu_for("gauge", "NN", c).nu = 0
    /\ c = <<5>> => nu_for("fermion", "++", c).nu = 0 /\ nu_for("fermion", "--", c).nu = 10
    /\ c = <<-5>> => nu_for("fermion", "++", c).nu = -10 /\ nu_for("fermion", "--", c).nu = 0
    /\ Returned => /\ extras.nu = ExpectedNu(species, bc, c)
                   /\ seeds = approx_jv_zeros(extras.nu, Max(n_req, MIN_SEEDS))
                   /\ \A i \in 1..Len(extras.x) :
                         \E m \in 1..Len(FZeros(extras.nu, geometry["epsilon"], exact)) :
                             FZeros(extras.nu, geometry["epsilon"], exact)[m] = extras.x[i]

\* C8: a spectrum was returned for the negative order nu = -1 (c = -0.5, '++')
C8_Witness ==
    /\ Returned
    /\ species = "fermion"
    /\ bc = "++"
    /\ c = <<-5>>
    /\ extras.nu = -10
    /\ Len(extras.x) = n_req

\* the request is outside the supported set
Unsupported ==
    \/ species \notin {"gauge", "fermion"}
    \/ species = "gauge" /\ bc # "NN"
    \/ species = "fermion" /\ bc \notin {"++", "--"}
    \/ species = "fermion" /\ c = NoC

\* order selection raised
OrderFailed == pc = "raised" /\ error.exc # "none" /\ error.from = "_nu_for"

\* C9: order selection fails exactly for the unsupported requests, before any
\* seed is generated or F is evaluated and with no spectrum returned; every
\* other request passes order selection.
C9_OrderSelectionErrors ==
    /\ OrderFailed => /\ Unsupported
                      /\ error.exc = "ValueError"
                      /\ seeds = << >>
                      /\ brackets = << >>
                      /\ calls = << >>
                      /\ masses = << >> /\ extras = << >>
    /\ (Unsupported /\ pc \notin {"validate", "order"})
          => (pc = "raised" /\ error.from \in {"_validate_geometry", "_nu_for"})
    /\ (Unsupported /\ MissingKeys(caller_geo) = << >> /\ pc \notin {"validate", "order"})
          => OrderFailed

\* C9: a fermion request without c and with an unsupported bc was refused
C9_Witness ==
    /\ OrderFailed
    /\ species = "fermion"
    /\ c = NoC
    /\ bc = "+-"

\* the required keys the caller's mapping lacks
Absent == {Required[i] : i \in {j \in 1..Len(Required) : Required[j] \notin DOMAIN caller_geo}}

\* geometry validation raised
GeometryFailed == pc = "raised" /\ error.exc # "none" /\ error.from = "_validate_geometry"

\* C10: with a required key absent the call raises one error that names every
\* missing key, before order selection or any root search; a mapping holding
\* the three keys, with or without extra keys, is accepted.
C10_GeometryValidation ==
    /\ (Absent # {} /\ pc # "validate")
          => /\ GeometryFailed
             /\ error.exc = "ValueError"
             /\ {error.missing[i] : i \in 1..Len(error.missing)} = Absent
             /\ Len(error.missing) = Cardinality(Absent)
             /\ nu_label = ""
             /\ seeds = << >> /\ brackets = << >> /\ calls = << >>
    /\ Absent = {} => ~GeometryFailed
    /\ (Absent = {} /\ pc # "validate") => geometry = caller_geo

\* C10: two keys were missing from the mapping of an unsupported request
C10_Witness ==
    /\ GeometryFailed
    /\ Len(error.missing) >= 2
    /\ Unsupported

\* C11: solve_kk never mutates the caller's geometry mapping, whether the
\* call returns or raises, and the geometry of the diagnostics is a copy
\* with the keys and values of the caller's mapping and nothing added.
C11_CallerGeometryUntouched ==
    /\ [][caller_geo' = caller_geo]_vars
    /\ [](pc \in {"order", "seeds", "seed", "expand", "after_seeds", "scan",
                  "check", "refine", "retry", "done"}
             => geometry = caller_geo)
    /\ [](Returned => /\ DOMAIN extras.geometry = DOMAIN caller_geo
                      /\ \A key \in DOMAIN caller_geo :
                            extras.geometry[key] = caller_geo[key])

\* C11: a spectrum was returned for a mapping that has an extra key
C11_Witness ==
    /\ Returned
    /\ "k" \in DOMAIN caller_geo
    /\ extras.geometry = caller_geo
    /\ Len(masses) = n_req

\* sign of the F of the order n, the warping eps and the equation form ex
Fref(n, eps, ex, x) == IF ex THEN F_exact(n, eps, x) ELSE F_ironly(n, x)

\* the expansion loop of _bracket_around from its pass j on: no bracket or one
RECURSIVE RefExpand(_, _, _, _, _, _)
RefExpand(n, eps, ex, lo, hi, j) ==
    IF j >= MAX_EXPAND
    THEN << >>
    ELSE LET lo2 == ExpandLow(lo)
             hi2 == ExpandHigh(hi)
         IN  IF Fref(n, eps, ex, lo2) # Fref(n, eps, ex, hi2)
             THEN <<Bracket(lo2, hi2, "expand")>>
             ELSE RefExpand(n, eps, ex, lo2, hi2, j + 1)

\* _bracket_around as a function of the order, the warping, the form and the seed
RefBracketAround(n, eps, ex, x0) ==
    LET lo == SeedLow(x0)
        hi == SeedHigh(x0)
        fa == Fref(n, eps, ex, lo)
        fb == Fref(n, eps, ex, hi)
    IN  IF fa = 0 THEN <<Bracket(Straddle(lo)[1], Straddle(lo)[2], "zero")>>
        ELSE IF fb = 0 THEN <<Bracket(Straddle(hi)[1], Straddle(hi)[2], "zero")>>
        ELSE IF fa # fb THEN <<Bracket(lo, hi, "seed")>>
        ELSE RefExpand(n, eps, ex, lo, hi, 0)

\* the seed loop of solve_kk from the seed kk on
RECURSIVE RefSeedBrackets(_, _, _, _, _, _, _)
RefSeedBrackets(n, eps, ex, sd, nr, kk, acc) ==
    IF kk > Len(sd) \/ Len(acc) >= nr
    THEN acc
    ELSE RefSeedBrackets(n, eps, ex, sd, nr, kk + 1,
                         acc \o RefBracketAround(n, eps, ex, sd[kk]))

\* the j-th point of the scan that starts at the last seed
RefScanPoint(sd, j) == Max(sd[Len(sd)], MIN_X) + PiTimes(j)

\* the scan points below xm from which the scan records a bracket
RefScanHits(n, eps, ex, sd, xm) ==
    {j \in 0..(xm \div 3141) :
        /\ RefScanPoint(sd, j) < xm
        /\ \/ Fref(n, eps, ex, RefScanPoint(sd, j)) = 0
           \/ Fref(n, eps, ex, RefScanPoint(sd, j)) # Fref(n, eps, ex, RefScanPoint(sd, j + 1))}

\* _scan_for_brackets as a function of the order, the warping, the form, the
\* seeds, the number of brackets wanted and x_max
RefScanBrackets(n, eps, ex, sd, needed, xm) ==
    LET hits == RefScanHits(n, eps, ex, sd, xm)
        nth(i) == CHOOSE j \in hits : Cardinality({h \in hits : h < j}) = i - 1
        count == IF Cardinality(hits) < needed THEN Cardinality(hits) ELSE needed
    IN  [i \in 1..count |->
            LET p == RefScanPoint(sd, nth(i))
            IN  IF Fref(n, eps, ex, p) = 0
                THEN Bracket(Straddle(p)[1], Straddle(p)[2], "scan_zero")
                ELSE Bracket(p, RefScanPoint(sd, nth(i) + 1), "scan")]

\* the brackets of solve_kk as a function of the request and of epsilon
RefBrackets(n, eps, ex, nr, xm) ==
    LET sd == approx_jv_zeros(n, Max(nr, MIN_SEEDS))
        sb == RefSeedBrackets(n, eps, ex, sd, nr, 1, << >>)
    IN  IF Len(sb) < nr
        THEN sb \o RefScanBrackets(n, eps, ex, sd, nr - Len(sb), xm)
        ELSE sb

\* the order of the request in this state
RequestNu ==
    IF species = "gauge" THEN 0
    ELSE IF bc = "++" THEN Abs(c[1] + 5) - 10 ELSE Abs(c[1] + 5)

\* the denominator of the coefficient of the root x is a zero of Y_n
DegenerateAt(n, eps, ex, x) ==
    IF ex
    THEN \E i \in 1..Len(YvZeros(n)) : YvZeros(n)[i] = x
    ELSE \E i \in 1..Len(YvZeros(n)) : YvZeros(n)[i] = EpsTimes(eps, x)

\* the coefficient section 4.5 gives to the root x
ExpectedB(n, eps, ex, x) ==
    IF DegenerateAt(n, eps, ex, x) THEN "nan"
    ELSE IF ex THEN "-jv(nu,x)/yv(nu,x)" ELSE "-jv(nu,eps*x)/yv(nu,eps*x)"

\* C12: mass[i] = x[i] * Lambda_IR for every returned mode, in the order of
\* the roots; the brackets, the roots and the coefficients are functions of
\* the request and of epsilon alone, whatever Lambda_IR and z_v are, so
\* doubling Lambda_IR doubles every mass and leaves the roots unchanged.
C12_MassScaling ==
    /\ pc \in {"refine", "retry", "done"} =>
          /\ brackets = RefBrackets(RequestNu, caller_geo["epsilon"], exact, n_req, x_max)
          /\ \A i \in 1..Len(xs) :
                /\ Fref(RequestNu, caller_geo["epsilon"], exact, xs[i]) = 0
                /\ brackets[i].a <= xs[i]
                /\ xs[i] <= brackets[i].b
    /\ Returned =>
          /\ extras.x = xs
          /\ Len(masses) = Len(extras.x)
          /\ \A i \in 1..Len(masses) :
                /\ masses[i] = extras.x[i] * caller_geo["Lambda_IR"]
                /\ extras.b[i] = ExpectedB(RequestNu, caller_geo["epsilon"], exact,
                                           extras.x[i])

\* C12: a spectrum returned for the doubled Lambda_IR, with z_v left alone
C12_Witness ==
    /\ Returned
    /\ caller_geo["Lambda_IR"] = 6
    /\ caller_geo["z_v"] = 333
    /\ Len(masses) = n_req
    /\ n_req >= 3
    /\ masses[3] = 6 * extras.x[3]

ProbeOrders == {-10, -9, 0, 1, 10}

ProbePoints == {-2000, -1, 0, 1, 2, 648, 2000, 2405, 2449, 3696, 3832, 5520}

\* the sign of F above the floor from the zeros zs of F and its sign s0 near 0
SignAbove(x, zs, s0) ==
    LET below == {i \in 1..Len(zs) : zs[i] < x}
    IN  IF \E i \in 1..Len(zs) : zs[i] = x THEN 0
        ELSE IF Cardinality(below) % 2 = 0 THEN s0 ELSE -s0

InitF ==
    /\ species = "gauge" /\ bc = "NN" /\ c = NoC
    /\ caller_geo = WarpParams(EpsDefault)
    /\ n_req = 3
    /\ exact = TRUE
    /\ tol = TolDefault
    /\ x_max = XMaxDefault
    /\ Start
    /\ other = NoCall
    /\ \E form \in {"exact", "ironly"}, n \in ProbeOrders, eps \in EpsValues,
          x \in ProbePoints :
          /\ eps # EpsDefault => n = 0
          /\ probe = [form |-> form, nu |-> n, eps |-> eps, x |-> x,
                      evaluated |-> FALSE, value |-> 0]

\* a call F(x) of the function returned by _F_exact or _F_ironly
EvalF ==
    /\ probe.form # "none"
    /\ ~probe.evaluated
    /\ probe' = [probe EXCEPT !.evaluated = TRUE,
                              !.value = IF probe.form = "exact"
                                        THEN F_exact(probe.nu, probe.eps, probe.x)
                                        ELSE F_ironly(probe.nu, probe.x)]
    /\ UNCHANGED <<inputs, pc, geometry, nu, nu_label, search, scan, warned,
                   n_roots, xs, calls, result, error, other>>

NextF == EvalF

SpecF == InitF /\ [][NextF]_vars

\* the evaluation was made
Evaluated == probe.form # "none" /\ probe.evaluated

\* the value the forms have above the floor
AboveFloorValue ==
    IF probe.form = "exact"
    THEN SignAbove(probe.x, CrossZeros(probe.nu, probe.eps), -1)
    ELSE SignAbove(probe.x, JvZeros(probe.nu), IF probe.nu = -10 THEN -1 ELSE 1)

\* C14 as stated: at or below the floor the exact form returns sign(x), and
\* +1 at x = 0, and the IR-only form a fixed nonzero value; above the floor
\* the forms are the Bessel expressions.
C14_FloorPlusOneAtZero ==
    Evaluated =>
        IF probe.x <= MIN_X
        THEN IF probe.form = "exact"
             THEN probe.value = IF probe.x = 0 THEN 1 ELSE Sign(probe.x)
             ELSE probe.value = 1
        ELSE probe.value = AboveFloorValue

\* C14 as amended: at or below the floor the exact form returns sign(x),
\* which is 0 at x = 0 and -1 below, and the IR-only form returns +1,
\* whatever the order and the warping; above the floor the forms are the
\* Bessel expressions.
C14_FloorIsSign ==
    Evaluated =>
        IF probe.x <= MIN_X
        THEN IF probe.form = "exact"
             THEN probe.value = IF probe.x = 0 THEN 0
                                ELSE IF probe.x < 0 THEN -1 ELSE 1
             ELSE probe.value = 1
        ELSE probe.value = AboveFloorValue

\* C14: the exact form was evaluated at x = 0 for a negative order
C14_Witness ==
    /\ Evaluated
    /\ probe.form = "exact"
    /\ probe.nu = -9
    /\ probe.x = 0
    /\ probe.value = 0

\* the label _nu_for gives to the order of the request
RequestLabel ==
    IF species = "gauge" THEN "nu=0 (gauge, NN)"
    ELSE IF bc = "++" THEN "nu=alpha-1 (fermion, ++)" ELSE "nu=alpha (fermion, --)"

\* the labels that say how the order was chosen and what was asked for
OrderLabels == {"nu_label", "species", "bc", "exact"}

\* C15 as stated: the diagnostics hold the roots, the coefficients, the order,
\* the validated geometry, and labels that state how the order was chosen and
\* which bracket strategy was used, with the species, bc and exactness mode.
C15_LabelsNameBracketStrategy ==
    Returned =>
        /\ {"x", "b", "nu", "geometry", "labels"} \subseteq DOMAIN extras
        /\ OrderLabels \subseteq DOMAIN extras.labels
        /\ DOMAIN extras.labels \ OrderLabels # {}

\* C15 as amended: the diagnostics hold the roots, the coefficients, the
\* order, the validated geometry and the labels nu_label (how the order was
\* chosen), species, bc and exact, and nothing about the bracket strategy.
C15_Diagnostics ==
    Returned =>
        /\ DOMAIN extras = {"x", "b", "nu", "geometry", "labels"}
        /\ extras.x = xs
        /\ extras.b = bvals
        /\ Len(extras.b) = Len(extras.x)
        /\ extras.nu = RequestNu
        /\ extras.geometry = geometry
        /\ DOMAIN extras.labels = OrderLabels
        /\ extras.labels.nu_label = RequestLabel
        /\ extras.labels.species = species
        /\ extras.labels.bc = bc
        /\ extras.labels.exact = exact

\* C15: diagnostics of a call whose brackets came from seeds and from the scan
C15_Witness ==
    /\ Returned
    /\ \E i \in 1..Len(brackets) : brackets[i].by = "scan"
    /\ \E i \in 1..Len(brackets) : brackets[i].by = "expand"
    /\ DOMAIN extras.labels = OrderLabels

\* every step that is enabled is eventually taken: the call is not suspended
FairSpec == Init /\ [][Next]_vars /\ WF_vars(Next)

\* the call returned or raised
Finished == pc \in {"done", "raised"}

\* the number of evaluations of F that _bracket_around has made for the seed
\* in hand: two at the start and two in each pass of the loop
SeedEvaluations == 2 + 2 * n_expand

\* C16: every call terminates, within fixed budgets: at most 2 + 2 * 30
\* evaluations of F per seed, at most ceil((x_max - x_start) / pi) scan
\* steps (the n-th step is taken from x_start + (n - 1) pi < x_max), and at
\* most two brentq calls per bracket, each with maxiter = 200.
C16_TerminatesWithinBudgets ==
    /\ <>Finished
    /\ [](pc = "expand" => SeedEvaluations <= 2 + 2 * 30)
    /\ [](n_expand <= 30)
    /\ [](n_steps > 0 => ScanStart + PiTimes(n_steps - 1) < x_max)
    /\ [](\A i \in 1..Len(brackets) :
             Cardinality({j \in 1..Len(calls) : calls[j].bracket = i}) <= 2)
    /\ [](\A j \in 1..Len(calls) : calls[j].maxiter = 200)
    /\ [](Len(calls) <= 2 * n_req)

\* C16: a call that used up the expansion budget and the scan, and returned
C16_Witness ==
    /\ Returned
    /\ Len(brackets) < n_req
    /\ n_steps > 0
    /\ ScanStart + PiTimes(n_steps) >= x_max
    /\ Len(calls) = Len(brackets)

(***************************************************************************)
(* Two concurrent calls.  The variables hold the call that is running;     *)
(* the other call, suspended, is held whole in the variable other.  The    *)
(* solver has no module-level state that a call writes, so a switch moves  *)
(* every variable of a call.                                               *)
(***************************************************************************)
\* the state of the running call
Snapshot ==
    [species |-> species,
     bc |-> bc,
     c |-> c,
     caller_geo |-> caller_geo,
     n_req |-> n_req,
     exact |-> exact,
     tol |-> tol,
     x_max |-> x_max,
     pc |-> pc,
     geometry |-> geometry,
     nu |-> nu,
     nu_label |-> nu_label,
     seeds |-> seeds,
     k |-> k,
     brackets |-> brackets,
     a |-> a,
     b |-> b,
     n_expand |-> n_expand,
     x_prev |-> x_prev,
     n_steps |-> n_steps,
     extra |-> extra,
     n_needed |-> n_needed,
     warned |-> warned,
     n_roots |-> n_roots,
     xs |-> xs,
     calls |-> calls,
     masses |-> masses,
     bvals |-> bvals,
     extras |-> extras,
     error |-> error]

\* a call that has not started: its arguments, and the locals of Start
FreshCall(sp, bcs, cc, geo, nr, ex, tl, xm) ==
    [species |-> sp, bc |-> bcs, c |-> cc, caller_geo |-> geo, n_req |-> nr,
     exact |-> ex, tol |-> tl, x_max |-> xm,
     pc |-> "validate", geometry |-> << >>, nu |-> 0, nu_label |-> "",
     seeds |-> << >>, k |-> 1, brackets |-> << >>, a |-> 0, b |-> 0,
     n_expand |-> 0, x_prev |-> 0, n_steps |-> 0, extra |-> << >>,
     n_needed |-> 0, warned |-> FALSE, n_roots |-> nr, xs |-> << >>,
     calls |-> << >>, masses |-> << >>, bvals |-> << >>, extras |-> << >>,
     error |-> NoError]

\* a switch that leaves the order in place, as a module-level nu would be
SwitchSharedNu ==
    /\ other.pc # "none"
    /\ other' = Snapshot
    /\ species' = other.species
    /\ bc' = other.bc
    /\ c' = other.c
    /\ caller_geo' = other.caller_geo
    /\ n_req' = other.n_req
    /\ exact' = other.exact
    /\ tol' = other.tol
    /\ x_max' = other.x_max
    /\ pc' = other.pc
    /\ geometry' = other.geometry
    /\ nu' = nu
    /\ nu_label' = other.nu_label
    /\ seeds' = other.seeds
    /\ k' = other.k
    /\ brackets' = other.brackets
    /\ a' = other.a
    /\ b' = other.b
    /\ n_expand' = other.n_expand
    /\ x_prev' = other.x_prev
    /\ n_steps' = other.n_steps
    /\ extra' = other.extra
    /\ n_needed' = other.n_needed
    /\ warned' = other.warned
    /\ n_roots' = other.n_roots
    /\ xs' = other.xs
    /\ calls' = other.calls
    /\ masses' = other.masses
    /\ bvals' = other.bvals
    /\ extras' = other.extras
    /\ error' = other.error
    /\ UNCHANGED probe

\* the running call is suspended and the other call resumes
Switch ==
    /\ other.pc # "none"
    /\ other' = Snapshot
    /\ species' = other.species
    /\ bc' = other.bc
    /\ c' = other.c
    /\ caller_geo' = other.caller_geo
    /\ n_req' = other.n_req
    /\ exact' = other.exact
    /\ tol' = other.tol
    /\ x_max' = other.x_max
    /\ pc' = other.pc
    /\ geometry' = other.geometry
    /\ nu' = other.nu
    /\ nu_label' = other.nu_label
    /\ seeds' = other.seeds
    /\ k' = other.k
    /\ brackets' = other.brackets
    /\ a' = other.a
    /\ b' = other.b
    /\ n_expand' = other.n_expand
    /\ x_prev' = other.x_prev
    /\ n_steps' = other.n_steps
    /\ extra' = other.extra
    /\ n_needed' = other.n_needed
    /\ warned' = other.warned
    /\ n_roots' = other.n_roots
    /\ xs' = other.xs
    /\ calls' = other.calls
    /\ masses' = other.masses
    /\ bvals' = other.bvals
    /\ extras' = other.extras
    /\ error' = other.error
    /\ UNCHANGED probe

\* a long call (failed seed, expansions, scan, shortfall) or a call whose
\* refinement fails, next to a short call
InitPair ==
    /\ \/ /\ species = "gauge" /\ bc = "NN" /\ c = NoC
          /\ caller_geo = WarpParams(EpsMild)
          /\ n_req = MIN_SEEDS /\ exact = TRUE /\ tol = TolDefault
          /\ x_max = 20000
       \/ /\ species = "gauge" /\ bc = "NN" /\ c = NoC
          /\ caller_geo = WarpParams(EpsDefault)
          /\ n_req = 2 /\ exact = TRUE /\ tol \in {TolDefault, TolZero}
          /\ x_max = XMaxDefault
    /\ Start
    /\ probe = NoProbe
    /\ \E bcs \in {"++", "--"} :
          other = FreshCall("fermion", bcs, <<-4>>, GeometryFor(EpsDefault, 6, 167),
                            2, FALSE, TolDefault, XMaxDefault)

NextPair == Next \/ Switch

SpecPair == InitPair /\ [][NextPair]_vars

\* the order of the request of the call s
OrderOf(s) ==
    IF s.species = "gauge" THEN 0
    ELSE IF s.bc = "++" THEN Abs(s.c[1] + 5) - 10 ELSE Abs(s.c[1] + 5)

\* the zeros of the F of the call s inside its i-th bracket when run alone
AloneRoots(s, i) ==
    LET br == RefBrackets(OrderOf(s), s.caller_geo["epsilon"], s.exact, s.n_req, s.x_max)[i]
        zs == FZeros(OrderOf(s), s.caller_geo["epsilon"], s.exact)
    IN  {zs[j] : j \in {m \in 1..Len(zs) : br.a <= zs[m] /\ zs[m] <= br.b}}

\* the call s is where the same call is when it runs alone
AsAlone(s) ==
    /\ s.pc \in {"seeds", "seed", "expand", "after_seeds", "scan", "check",
                 "refine", "retry", "done"}
          => /\ s.nu = OrderOf(s)
             /\ s.geometry = s.caller_geo
    /\ s.pc \in {"refine", "retry", "done"}
          => /\ s.brackets = RefBrackets(OrderOf(s), s.caller_geo["epsilon"], s.exact,
                                         s.n_req, s.x_max)
             /\ s.warned <=> Len(s.brackets) < s.n_req
             /\ \A i \in 1..Len(s.xs) : s.xs[i] \in AloneRoots(s, i)
    /\ s.pc = "done"
          => /\ Len(s.xs) = Len(s.brackets)
             /\ s.extras.x = s.xs
             /\ s.extras.nu = OrderOf(s)
             /\ s.extras.geometry = s.caller_geo
             /\ \A i \in 1..Len(s.xs) :
                   s.masses[i] = s.xs[i] * s.caller_geo["Lambda_IR"]
    /\ s.pc = "raised" => (s.error.from = "brentq" /\ s.tol # TolDefault)

\* C17: calls share no mutable state: the F of a call is fixed by its own
\* arguments from the moment it is built (so F at the same x has the same
\* value), and under any interleaving of two calls each call goes through
\* the brackets and returns the result it has when it runs alone.
C17_CallsDoNotInterfere ==
    /\ AsAlone(Snapshot)
    /\ other.pc # "none" => AsAlone(other)

\* a bracket of the call s holds one root only: its run alone has one result
OneRootPerBracket(s) ==
    \A i \in 1..Len(s.brackets) : Cardinality(AloneRoots(s, i)) = 1

\* C17: two interleaved calls with different orders and geometries, both returned
C17_Witness ==
    /\ Returned
    /\ other.pc = "done"
    /\ nu # other.nu
    /\ caller_geo # other.caller_geo
    /\ OneRootPerBracket(Snapshot)
    /\ OneRootPerBracket(other)
    /\ Len(masses) >= 2
    /\ Len(other.masses) = 2

\* the brentq call that produced the i-th root: the last call on bracket i
CallOf(i) == calls[CHOOSE j \in 1..Len(calls) :
                      /\ calls[j].bracket = i
                      /\ \A m \in (j + 1)..Len(calls) : calls[m].bracket # i]

\* C18 as stated: for every root x returned, |F(x)| <= tol.
C18_ResidualWithinTol ==
    Returned => \A i \in 1..Len(extras.x) : CallOf(i).resid # "above"

\* C18: tol bounds the roots in x, not the residual: every root returned
\* comes from a brentq call made with xtol = rtol = tol that ended without
\* an exception, and lies at a zero of F within the interval of that call
\* (to the tolerance in x); the residual is known to be zero only where the
\* root is an endpoint of the interval.
C18_RootsWithinXTolerance ==
    Returned =>
        \A i \in 1..Len(extras.x) :
            /\ CallOf(i).outcome = "root"
            /\ CallOf(i).xtol = tol /\ CallOf(i).rtol = tol
            /\ tol = TolDefault
            /\ CallOf(i).a <= extras.x[i] /\ extras.x[i] <= CallOf(i).b
            /\ \E j \in 1..Len(TrueRoots) : TrueRoots[j] = extras.x[i]
            /\ extras.x[i] \in {CallOf(i).a, CallOf(i).b} => CallOf(i).resid = "zero"

\* C18: an exact-mode call returned three roots, one with a residual above tol
C18_Witness ==
    /\ Returned
    /\ exact
    /\ Len(extras.x) = 3
    /\ CallOf(2).resid = "above"
    /\ CallOf(1).resid = "within"

\* the end-to-end request: get_warp_params() with its defaults, gauge 'NN',
\* three roots
EndToEnd ==
    /\ species = "gauge" /\ bc = "NN" /\ c = NoC
    /\ caller_geo = WarpParams(EpsDefault)
    /\ n_req = 3 /\ tol = TolDefault /\ x_max = XMaxDefault

\* C19 as stated: in the end-to-end scenario with exact = True the first
\* root is 2.404826, the first zero of J_0.
C19_FirstRootIsJ0Zero ==
    (EndToEnd /\ exact /\ Returned) =>
        /\ extras.x[1] = JvZeros(0)[1]
        /\ masses[1] = extras.x[1] * caller_geo["Lambda_IR"]

\* C19: in the end-to-end scenario with exact = True the first root is the
\* first zero of J_0(x) Y_0(eps x) - J_0(eps x) Y_0(x), 2.449 (2.448687),
\* and the first mass is that root times Lambda_IR; 2.405 (2.404826) is the
\* first root of the same request with exact = False.
C19_EndToEnd ==
    (EndToEnd /\ Returned) =>
        /\ Len(extras.x) = 3
        /\ exact => extras.x[1] = 2449
        /\ ~exact => extras.x[1] = 2405
        /\ masses[1] = extras.x[1] * 3
        /\ caller_geo["Lambda_IR"] = 3

\* C19: the end-to-end call with exact = True has returned
C19_Witness ==
    /\ EndToEnd /\ exact /\ Returned
    /\ extras.x[1] = CrossZeros(0, EpsDefault)[1]
    /\ masses[1] = 7347

(***************************************************************************)
(* get_warp_params(k, Lambda_IR).  The arguments are whole numbers; a      *)
(* quotient is the fraction in lowest terms with a positive denominator,   *)
(* and the logarithm is known by its sign.                                 *)
(***************************************************************************)
RECURSIVE Gcd(_, _)
Gcd(u, v) == IF v = 0 THEN u ELSE Gcd(v, u % v)

\* p / q for q # 0
Quotient(p, q) ==
    LET g == Gcd(Abs(p), Abs(q))
        s == IF q < 0 THEN -1 ELSE 1
    IN  [num |-> (s * p) \div g, den |-> (s * q) \div g]

\* the sign of math.log(r) for a fraction r > 0
LogSign(r) == Sign(r.num - r.den)

\* get_warp_params without the test on epsilon
get_warp_params_unchecked(kk, lam) ==
    IF kk = 0 THEN [kind |-> "ZeroDivisionError"]
    ELSE LET epsilon == Quotient(lam, kk)
         IN  IF lam = 0 THEN [kind |-> "ValueError"]
             ELSE [kind |-> "record",
                   geo |-> [k |-> kk,
                            Lambda_IR |-> lam,
                            epsilon |-> epsilon,
                            rc |-> 0,
                            z_h |-> Quotient(1, kk),
                            z_v |-> Quotient(1, lam),
                            warp_log |-> 0]]

\* lines 40-58: epsilon = Lambda_IR / k (division by zero raises), the test
\* epsilon <= 0, warp_log = -log(epsilon) and rc = warp_log / (pi k) by
\* their signs, and the record
get_warp_params(kk, lam) ==
    IF kk = 0 THEN [kind |-> "ZeroDivisionError"]
    ELSE LET epsilon == Quotient(lam, kk)
         IN  IF epsilon.num <= 0 THEN [kind |-> "ValueError"]
             ELSE LET warp_log == -LogSign(epsilon)
                      rc == warp_log * Sign(kk)
                  IN  [kind |-> "record",
                       geo |-> [k |-> kk,
                                Lambda_IR |-> lam,
                                epsilon |-> epsilon,
                                rc |-> rc,
                                z_h |-> Quotient(1, kk),
                                z_v |-> Quotient(1, lam),
                                warp_log |-> warp_log]]

\* the curvatures and IR scales a caller passes
KValues == {-12, -4, -2, -1, 0, 1, 2, 3, 4, 6, 12}

LambdaIRValues == {-6, -3, -1, 0, 1, 2, 3, 4, 6, 12}

\* a caller about to call get_warp_params(k, Lambda_IR); no solve is running
InitWarp ==
    /\ species = "gauge" /\ bc = "NN" /\ c = NoC
    /\ caller_geo = WarpParams(EpsDefault)
    /\ n_req = 3
    /\ exact = TRUE
    /\ tol = TolDefault
    /\ x_max = XMaxDefault
    /\ Start
    /\ other = NoCall
    /\ \E kk \in KValues, lam \in LambdaIRValues :
          probe = [form |-> "get_warp_params", k |-> kk, Lambda_IR |-> lam,
                   evaluated |-> FALSE, out |-> [kind |-> "none"]]

\* the call get_warp_params(k, Lambda_IR)
GetWarpParams ==
    /\ probe.form = "get_warp_params"
    /\ ~probe.evaluated
    /\ probe' = [probe EXCEPT !.evaluated = TRUE,
                              !.out = get_warp_params(probe.k, probe.Lambda_IR)]
    /\ UNCHANGED <<inputs, pc, geometry, nu, nu_label, search, scan, warned,
                   n_roots, xs, calls, result, error, other>>

NextWarp == GetWarpParams

SpecWarp == InitWarp /\ [][NextWarp]_vars

\* get_warp_params has returned a record
Produced ==
    /\ probe.form = "get_warp_params"
    /\ probe.evaluated
    /\ probe.out.kind = "record"

\* get_warp_params has raised
Rejected ==
    /\ probe.form = "get_warp_params"
    /\ probe.evaluated
    /\ probe.out.kind \in {"ValueError", "ZeroDivisionError"}

\* r = p / q, for q # 0
IsQuotient(r, p, q) == r.den > 0 /\ r.num * q = r.den * p

\* C20 as stated: every record has 0 < epsilon < 1, and inputs that would
\* give an epsilon outside that range are rejected.
C20_EpsilonBelowOne ==
    /\ Produced => /\ 0 < probe.out.geo.epsilon.num
                   /\ probe.out.geo.epsilon.num < probe.out.geo.epsilon.den
    /\ (probe.form = "get_warp_params" /\ probe.evaluated /\ probe.k # 0
          /\ ~(0 < probe.Lambda_IR * probe.k /\ Abs(probe.Lambda_IR) < Abs(probe.k)))
          => Rejected

\* C20: every record produced has epsilon = Lambda_IR / k > 0, z_v =
\* 1 / Lambda_IR and z_h = 1 / k; the inputs rejected are those with
\* Lambda_IR / k <= 0 (ValueError) and k = 0 (the division raises); an
\* epsilon of 1 or more is not rejected.
C20_WarpRecord ==
    /\ Produced =>
          /\ probe.out.geo.k = probe.k
          /\ probe.out.geo.Lambda_IR = probe.Lambda_IR
          /\ IsQuotient(probe.out.geo.epsilon, probe.Lambda_IR, probe.k)
          /\ probe.out.geo.epsilon.num > 0
          /\ IsQuotient(probe.out.geo.z_v, 1, probe.Lambda_IR)
          /\ IsQuotient(probe.out.geo.z_h, 1, probe.k)
          /\ probe.out.geo.warp_log > 0 <=> Abs(probe.Lambda_IR) < Abs(probe.k)
    /\ (probe.form = "get_warp_params" /\ probe.evaluated) =>
          /\ probe.out.kind = "ZeroDivisionError" <=> probe.k = 0
          /\ probe.out.kind = "ValueError"
                <=> (probe.k # 0 /\ probe.Lambda_IR * probe.k <= 0)
          /\ Produced <=> probe.Lambda_IR * probe.k > 0

\* C20: a record was produced with epsilon = 4 > 1
C20_Witness ==
    /\ Produced
    /\ probe.k = 3 /\ probe.Lambda_IR = 12
    /\ probe.out.geo.epsilon = [num |-> 4, den |-> 1]
    /\ probe.out.geo.z_v = [num |-> 1, den |-> 12]
    /\ probe.out.geo.warp_log < 0

\* the phases of solve_kk in the order the code goes through them
PhaseOf(p) ==
    CASE p \in {"validate", "order", "seeds"} -> 0
      [] p \in {"seed", "expand"} -> 1
      [] p = "after_seeds" -> 2
      [] p = "scan" -> 3
      [] p = "check" -> 4
      [] p \in {"refine", "retry"} -> 5
      [] p \in {"done", "raised"} -> 6

\* the seed loop is over: n_roots brackets, or no seed left
SeedLoopOver == Len(brackets) >= n_roots \/ k > Len(seeds)

\* C24: bracket search goes through its phases in a fixed order.  Seeds are
\* tried one at a time, in increasing order, until n_roots brackets are
\* collected or the seeds run out; the scan starts only after that, only
\* with fewer than n_roots brackets, and is asked for the missing number;
\* the search ends with n_roots brackets or, with fewer, with the warning;
\* refinement starts only after the search has ended and leaves the
\* brackets alone.
C24_SearchPhases ==
    /\ [][/\ PhaseOf(pc') >= PhaseOf(pc)
          /\ k' \in {k, k + 1}
          /\ (PhaseOf(pc) = 1 /\ PhaseOf(pc') = 2) => SeedLoopOver
          /\ PhaseOf(pc') = 3 => PhaseOf(pc) \in {2, 3}
          /\ (PhaseOf(pc) = 2 /\ PhaseOf(pc') = 3)
                => /\ Len(brackets) < n_roots
                   /\ k = Len(seeds) + 1
                   /\ n_needed' = n_roots - Len(brackets)
          /\ (PhaseOf(pc) = 2 /\ PhaseOf(pc') = 4) => Len(brackets) = n_roots
          /\ PhaseOf(pc') = 5 => PhaseOf(pc) \in {4, 5}
          /\ PhaseOf(pc) >= 5 => brackets' = brackets
          /\ PhaseOf(pc) = 3 => UNCHANGED <<seeds, k>>
          /\ (PhaseOf(pc) = 1 /\ Len(brackets') > Len(brackets))
                => /\ k' = k + 1
                   /\ Len(brackets') = Len(brackets) + 1
         ]_vars
    /\ [](/\ PhaseOf(pc) = 1
             => /\ k <= Len(seeds) + 1
                /\ Len(brackets) <= n_roots
                /\ Len(brackets) < k
                /\ \A i \in 1..(Len(seeds) - 1) : seeds[i] < seeds[i + 1]
          /\ PhaseOf(pc) <= 4 => (xs = << >> /\ calls = << >> /\ ~warned)
          /\ PhaseOf(pc) = 3 => Len(extra) <= n_needed
          /\ PhaseOf(pc) = 4 => Len(brackets) <= n_roots
          /\ PhaseOf(pc) = 5
                => \/ ~warned /\ Len(brackets) = n_req
                   \/ warned /\ Len(brackets) < n_req /\ n_roots = Len(brackets))

\* C24: seeds gave some brackets, the scan gave the rest, refinement is done
C24_Witness ==
    /\ Returned
    /\ ~warned
    /\ n_steps > 0
    /\ \E i \in 1..Len(brackets) : brackets[i].by = "scan"
    /\ \E i \in 1..Len(brackets) : brackets[i].by \in {"seed", "expand"}
    /\ Len(xs) = n_req

\* v is num/den times u, to the resolution of x
IsTimes(v, u, num, den) == Abs(den * v - num * u) <= den \div 2

\* v is max(num/den times u, floor)
IsTimesFloored(v, u, num, den) ==
    IF num * u <= den * MIN_X THEN v = MIN_X ELSE IsTimes(v, u, num, den)

\* the bracket appended by the step, if the step of the seed loop appends one
NewBracket == brackets'[Len(brackets')]

\* C25: seed bracketing starts from [max(0.8 x0, floor), 1.2 x0]; an endpoint
\* where F is zero gives a small bracket straddling that endpoint, opposite
\* signs at the ends are accepted at once, and otherwise the interval is
\* widened (lower end times 0.8, clipped at the floor; upper end times 1.25)
\* at most 30 times, each interval containing the one before, and the first
\* interval with a sign change is returned, or no bracket if there is none.
C25_SeedBracketing ==
    /\ [][pc = "seed" /\ k' = k + 1 =>
             LET x0 == seeds[k]
                 lo == NewBracket.a
                 hi == NewBracket.b
             IN  /\ Len(brackets') = Len(brackets) + 1
                 /\ NewBracket.by \in {"seed", "zero"}
                 /\ NewBracket.by = "seed"
                       => /\ IsTimesFloored(lo, x0, 4, 5)
                          /\ IsTimes(hi, x0, 6, 5)
                          /\ F(lo) # 0 /\ F(hi) # 0 /\ F(lo) # F(hi)
                 /\ NewBracket.by = "zero"
                       => \E p \in lo..hi :
                             /\ F(p) = 0
                             /\ IsTimesFloored(lo, p, 9, 10)
                             /\ IsTimes(hi, p, 11, 10)
                             /\ \/ IsTimesFloored(p, x0, 4, 5)
                                \/ IsTimes(p, x0, 6, 5)
         ]_vars
    /\ [][(pc = "seed" /\ pc' = "expand") =>
             /\ IsTimesFloored(a', seeds[k], 4, 5)
             /\ IsTimes(b', seeds[k], 6, 5)
             /\ n_expand' = 0
             /\ brackets' = brackets
         ]_vars
    /\ [][(pc = "expand" /\ n_expand' # n_expand) =>
             /\ n_expand' = n_expand + 1
             /\ IsTimesFloored(a', a, 4, 5)
             /\ IsTimes(b', b, 5, 4)
             /\ a' <= a /\ b <= b'
             /\ IF F(a') # F(b')
                THEN /\ brackets' = Append(brackets, [a |-> a', b |-> b', by |-> "expand"])
                     /\ pc' = "seed" /\ k' = k + 1
                ELSE /\ brackets' = brackets /\ pc' = "expand"
         ]_vars
    /\ [][(pc = "expand" /\ n_expand' = n_expand /\ pc' # pc) =>
             /\ n_expand = MAX_EXPAND
             /\ brackets' = brackets
             /\ k' = k + 1
         ]_vars
    /\ [](pc = "expand" => /\ n_expand <= MAX_EXPAND
                           /\ F(a) = F(b)
                           /\ 0 < a /\ a < seeds[k] /\ seeds[k] < b)

\* C25: the first seed was given up after 30 expansions and the second got
\* its bracket from the expansion loop
C25_Witness ==
    /\ pc = "seed"
    /\ k = 3
    /\ Len(brackets) = 1
    /\ brackets[1].by = "expand"
    /\ n_expand > 1
    /\ brackets[1].a < SeedLow(seeds[2])
    /\ SeedHigh(seeds[2]) < brackets[1].b

\* the linear scan was entered by this call
ScanEntered == PhaseOf(pc) >= 3 /\ x_prev > 0

\* the points at which the scan evaluated F: ScanX(0), ..., ScanX(n_steps)
ScanPoints == {ScanX(j) : j \in 0..n_steps}

\* C26 as stated: every point at which the scan evaluates F and both ends of
\* every bracket it returns lie within [x_start, x_max], and it returns no
\* bracket when x_start >= x_max.
C26_ScanStaysBelowXmax ==
    ScanEntered =>
        /\ \A p \in ScanPoints : ScanStart <= p /\ p <= x_max
        /\ \A i \in 1..Len(extra) : /\ ScanStart <= extra[i].a
                                    /\ extra[i].b <= x_max
        /\ ScanStart >= x_max => extra = << >>

\* C26: the scan steps by pi from its start point and takes a step from every
\* point below x_max, so the last point at which it evaluates F is at or
\* beyond x_max, by less than pi (and the start point is evaluated wherever
\* it lies).  A sign-change bracket starts at a scan point in [x_start,
\* x_max) and ends one step further, possibly beyond x_max; a bracket for a
\* zero at a scan point p < x_max is [0.9 p, 1.1 p].  No bracket is returned
\* when x_start >= x_max.
C26_ScanOvershootsByLessThanAStep ==
    ScanEntered =>
        /\ x_prev = ScanX(n_steps)
        /\ ScanX(0) = seeds[Len(seeds)]
        /\ \A j \in 1..n_steps : /\ ScanX(j) - ScanX(j - 1) \in {3141, 3142}
                                 /\ ScanX(j - 1) < x_max
                                 /\ ScanX(j) < x_max + 3142
        /\ PhaseOf(pc) >= 4 => (Len(extra) = n_needed \/ x_prev >= x_max)
        /\ \A i \in 1..Len(extra) :
              \/ /\ extra[i].by = "scan"
                 /\ extra[i].a \in ScanPoints
                 /\ extra[i].a < x_max
                 /\ extra[i].b \in ScanPoints
                 /\ extra[i].b - extra[i].a \in {3141, 3142}
              \/ /\ extra[i].by = "scan_zero"
                 /\ \E p \in ScanPoints :
                       /\ F(p) = 0 /\ p < x_max
                       /\ IsTimesFloored(extra[i].a, p, 9, 10)
                       /\ IsTimes(extra[i].b, p, 11, 10)
        /\ ScanStart >= x_max => (extra = << >> /\ n_steps = 0)

\* C26: the scan returned a bracket that ends beyond x_max, and the root
\* refined in it lies beyond x_max
C26_Witness ==
    /\ Returned
    /\ ScanEntered
    /\ Len(extra) = 1
    /\ extra[1].a < x_max
    /\ extra[1].b > x_max
    /\ xs[Len(xs)] > x_max

\* the seeds exist: _approx_jv_zeros has returned
SeedsMade == PhaseOf(pc) >= 1 /\ pc # "raised"

\* nu (in tenths) is an integer
IntegerOrder == nu % 10 = 0

ZerosWithin(br) == {z \in {TrueRoots[i] : i \in 1..Len(TrueRoots)} : br.a <= z /\ z <= br.b}

\* C28: the brackets returned by one linear scan are in increasing order and
\* pairwise non-overlapping (two of them share at most an endpoint), and no
\* zero of F lies in two of them.
C28_ScanBracketsDisjoint ==
    ScanEntered =>
        \A i, j \in 1..Len(extra) :
            i < j => /\ extra[i].b <= extra[j].a
                     /\ ZerosWithin(extra[i]) \cap ZerosWithin(extra[j]) = {}

(***************************************************************************)
(* 9) The grid scan: run_scan, _evaluate_point, check_mu_to_e_gamma and    *)
(*    classify_row.  Scales are in TeV, Yukawas in tenths, the LFV         *)
(*    coefficient and left-hand side in thousandths.                       *)
(***************************************************************************)

\* np.nan: every comparison with it is False
NaN == -1000000

\* float('inf') and np.nan where the value is kept as a fraction num/den
Inf == [num |-> 1, den |-> 0]

NaNFrac == [num |-> 0, den |-> 0]

\* a < b, a <= b and a >= b on floats
FLt(u, v) == u # NaN /\ v # NaN /\ u < v

FLe(u, v) == u # NaN /\ v # NaN /\ u <= v

FGe(u, v) == u # NaN /\ v # NaN /\ u >= v

\* np.abs
FAbs(v) == IF v = NaN THEN NaN ELSE Abs(v)

\* float(np.max(np.abs(ys))) and float(np.min(np.abs(ys))): NaN if any
\* entry is NaN
MaxAbs(ys) ==
    IF \E i \in DOMAIN ys : ys[i] = NaN THEN NaN
    ELSE CHOOSE m \in {Abs(ys[i]) : i \in DOMAIN ys} :
             \A i \in DOMAIN ys : Abs(ys[i]) <= m

MinAbs(ys) ==
    IF \E i \in DOMAIN ys : ys[i] = NaN THEN NaN
    ELSE CHOOSE m \in {Abs(ys[i]) : i \in DOMAIN ys} :
             \A i \in DOMAIN ys : Abs(ys[i]) >= m

\* ScanConfig's defaults: max_Y_bar = 4.0, naturalness_range = (0.1, 4.0),
\* lfv_reference_scale = 3000 GeV
MaxYBarDefault == 40

NaturalLo == 1

NaturalHi == 40

ReferenceScale == 3

\* a c_E point whose first entry is so large that f_IR underflows to zero,
\* which compute_charged_lepton_yukawas rejects with ValueError, and an
\* ordinary one
CEOverflow == <<300, 60, 50>>

CEBenchmark == <<75, 60, 50>>

\* YukawaResult.is_perturbative(max_Y_bar)
is_perturbative(res, max_Y_bar) ==
    /\ \A i \in 1..3 : FLt(FAbs(res.Y_E_bar[i]), max_Y_bar)
    /\ \A i \in 1..3 : FLt(FAbs(res.Y_N_bar[i]), max_Y_bar)

\* the keyword arguments check_mu_to_e_gamma declares besides yukawa_result
LfvKeywords == {"C", "reference_scale"}

\* check_mu_to_e_gamma(yukawa_result, **kw): a keyword the signature does
\* not declare is a TypeError; M_KK is params['Lambda_IR'], lhs the
\* magnitude of the (1,2) element, rhs = C (M_KK / reference_scale)^2 kept as
\* the fraction num/den, passes = lhs <= rhs, ratio = lhs / rhs
check_mu_to_e_gamma(res, kw) ==
    IF ~(DOMAIN kw \subseteq LfvKeywords) THEN [kind |-> "TypeError"]
    ELSE LET M_KK == res.params.Lambda_IR
             lhs  == res.offdiag
             num  == kw.C * M_KK * M_KK
             den  == kw.reference_scale * kw.reference_scale
         IN  [kind |-> "result",
              lhs |-> lhs,
              rhs |-> [num |-> num, den |-> den],
              passes |-> lhs * den <= num,
              ratio |-> IF num > 0 THEN [num |-> lhs * den, den |-> num]
                        ELSE Inf]

\* the Yukawa results compute_all_yukawas produces at ordinary points, by
\* their rescaled couplings and the magnitude of the (1,2) element
\* of Ybar_N Ybar_N^dagger
YukawaValues ==
    { [Y_E_bar |-> <<29, 30, 54>>, Y_N_bar |-> <<2, 4, 10>>, offdiag |-> 72],
      [Y_E_bar |-> <<10, 20, 39>>, Y_N_bar |-> <<1, 4, 10>>, offdiag |-> 1],
      [Y_E_bar |-> <<10, 20, 40>>, Y_N_bar |-> <<1, 4, 10>>, offdiag |-> 28],
      [Y_E_bar |-> <<-45, 20, 30>>, Y_N_bar |-> <<0, 4, 10>>, offdiag |-> 500] }

\* compute_all_yukawas at a grid point: ValueError when an overlap factor is
\* not positive, a YukawaResult with the point in params otherwise
compute_all_yukawas(pt) ==
    IF pt.c_E = CEOverflow
    THEN {[kind |-> "ValueError"]}
    ELSE {[kind |-> "result", Y_E_bar |-> y.Y_E_bar, Y_N_bar |-> y.Y_N_bar,
           offdiag |-> y.offdiag,
           params |-> [Lambda_IR |-> pt.Lambda_IR, c_L |-> pt.c_L]]
          : y \in YukawaValues}

\* ScanConfig.total_points
total_points(config) ==
    Len(config.grids[1]) * Len(config.grids[2]) * Len(config.grids[3])
      * Len(config.grids[4]) * Len(config.grids[5]) * Len(config.grids[6])

\* the point itertools.product is at, for the index it holds in each grid
PointAt(config, idx) ==
    [Lambda_IR |-> config.grids[1][idx[1]],
     c_L |-> config.grids[2][idx[2]],
     c_N |-> config.grids[3][idx[3]],
     c_E |-> config.grids[4][idx[4]],
     MN_over_k |-> config.grids[5][idx[5]],
     lightest_nu_mass |-> config.grids[6][idx[6]]]

\* itertools.product's step: the rightmost index that can grow grows and
\* the ones to its right restart
RECURSIVE Advance(_, _, _)
Advance(config, idx, g) ==
    IF g = 0 THEN idx
    ELSE IF idx[g] < Len(config.grids[g])
         THEN [idx EXCEPT ![g] = idx[g] + 1]
         ELSE Advance(config, [idx EXCEPT ![g] = 1], g - 1)

\* the iterator is at its last point
Exhausted(config, idx) == \A g \in 1..6 : idx[g] = Len(config.grids[g])

\* strings are kept as sequences of tokens, "" being the empty sequence;
\* ";".join(reasons)
RECURSIVE Join(_)
Join(reasons) ==
    IF Len(reasons) = 0 THEN <<>>
    ELSE IF Len(reasons) = 1 THEN reasons[1]
         ELSE reasons[1] \o <<";">> \o Join(Tail(reasons))

\* the labels of the filters that reject, in call order
RECURSIVE FilterLabels(_)
FilterLabels(filters) ==
    IF Len(filters) = 0 THEN <<>>
    ELSE (IF filters[1].ok THEN <<>> ELSE <<filters[1].label>>)
           \o FilterLabels(Tail(filters))

\* lines 402-464: the row before compute_all_yukawas is called
DefaultRow(sample_index, pt, config, lfv_C) ==
    [sample_index |-> sample_index,
     lfv_C |-> lfv_C,
     xi_KK |-> config.xi_KK,
     Lambda_IR |-> pt.Lambda_IR,
     M_KK |-> config.xi_KK * pt.Lambda_IR,
     c_L |-> pt.c_L, c_N |-> pt.c_N, c_E |-> pt.c_E,
     MN_over_k |-> pt.MN_over_k,
     lightest_nu_mass |-> pt.lightest_nu_mass,
     Y_E_bar |-> <<NaN, NaN, NaN>>,
     Y_N_bar |-> <<NaN, NaN, NaN>>,
     max_Y_bar |-> NaN,
     perturbative |-> FALSE,
     natural |-> FALSE,
     lfv_passes |-> FALSE,
     lfv_lhs |-> NaN,
     lfv_rhs |-> NaNFrac,
     lfv_ratio |-> NaNFrac,
     passes_all |-> FALSE,
     reject_reason |-> <<>>]

\* the reason left as the row was initialised, the empty string
ExceptionReasonUnset(res) == <<>>

\* line 481: f"exception:{exc}"
ExceptionReason(res) == <<"exception:", res.kind>>

\* _evaluate_point with config.anarchy = None, for the outcome res of
\* compute_all_yukawas: the row it returns, or the exception that leaves it
\* with the row as it then stands
evaluate_point(sample_index, pt, config, lfv_C, extra_filters, res) ==
    LET row0 == DefaultRow(sample_index, pt, config, lfv_C)
    IN
    IF res.kind # "result"
    THEN [kind |-> "row",
          row |-> [row0 EXCEPT !.reject_reason = ExceptionReason(res)]]
    ELSE
    LET all_y == res.Y_E_bar \o res.Y_N_bar
        max_y == MaxAbs(all_y)
        min_y == MinAbs(all_y)
        isp   == is_perturbative(res, config.max_Y_bar)
        isn   == FGe(min_y, config.naturalness_range[1])
                   /\ FLe(max_y, config.naturalness_range[2])
        row1  == [row0 EXCEPT !.Y_E_bar = res.Y_E_bar,
                              !.Y_N_bar = res.Y_N_bar,
                              !.max_Y_bar = max_y,
                              !.perturbative = isp,
                              !.natural = isn]
        lfv   == check_mu_to_e_gamma(res,
                     [C |-> lfv_C,
                      reference_scale |-> config.lfv_reference_scale,
                      M_KK_override |-> row0.M_KK])
    IN
    IF lfv.kind # "result"
    THEN [kind |-> lfv.kind, row |-> row1]
    ELSE
    LET reasons == (IF isp THEN <<>> ELSE << <<"perturbativity">> >>)
                   \o (IF isn THEN <<>> ELSE << <<"naturalness">> >>)
                   \o (IF lfv.passes THEN <<>> ELSE << <<"mu_to_e_gamma">> >>)
                   \o FilterLabels(extra_filters)
    IN  [kind |-> "row",
         row |-> [row1 EXCEPT !.lfv_passes = lfv.passes,
                              !.lfv_lhs = lfv.lhs,
                              !.lfv_rhs = lfv.rhs,
                              !.lfv_ratio = lfv.ratio,
                              !.reject_reason = Join(reasons),
                              !.passes_all = (Len(reasons) = 0)]]

\* ReclassifyConfig(): max_Y_bar = 4.0, naturalness_range = (0.1, 4.0),
\* require_lfv = True, anarchy = None
ReclassifyDefault ==
    [max_Y_bar |-> MaxYBarDefault,
     naturalness_range |-> <<NaturalLo, NaturalHi>>,
     require_lfv |-> TRUE]

\* ratio <= 1.0 for a ratio kept as num/den
RatioAtMostOne(r) ==
    IF r.den = 0 THEN FALSE ELSE r.num <= r.den

\* classify_row with its comparisons written as negations of the opposite
\* ones, which differ on NaN
classify_row_negated(row, config) ==
    LET y_vals == row.Y_E_bar \o row.Y_N_bar
        max_y == MaxAbs(y_vals)
        min_y == MinAbs(y_vals)
        reclass_perturbative == ~FGe(max_y, config.max_Y_bar)
        reclass_natural == ~FLt(min_y, config.naturalness_range[1])
                             /\ FLe(max_y, config.naturalness_range[2])
        reclass_lfv_passes ==
            IF config.require_lfv THEN RatioAtMostOne(row.lfv_ratio) ELSE TRUE
        reasons == (IF reclass_perturbative THEN <<>> ELSE << <<"perturbativity">> >>)
                   \o (IF reclass_natural THEN <<>> ELSE << <<"naturalness">> >>)
                   \o (IF reclass_lfv_passes THEN <<>> ELSE << <<"mu_to_e_gamma">> >>)
    IN  [reclass_max_Y_bar_observed |-> max_y,
         reclass_min_Y_bar_observed |-> min_y,
         reclass_perturbative |-> reclass_perturbative,
         reclass_natural |-> reclass_natural,
         reclass_lfv_passes |-> reclass_lfv_passes,
         reclass_passes_all |-> (Len(reasons) = 0),
         reclass_reject_reason |-> Join(reasons)]

\* classify_row(row, config) for a row of run_scan, which holds lfv_ratio
classify_row(row, config) ==
    LET y_vals == row.Y_E_bar \o row.Y_N_bar
        max_y == MaxAbs(y_vals)
        min_y == MinAbs(y_vals)
        reclass_perturbative == FLt(max_y, config.max_Y_bar)
        reclass_natural == FGe(min_y, config.naturalness_range[1])
                             /\ FLe(max_y, config.naturalness_range[2])
        reclass_lfv_passes ==
            IF config.require_lfv THEN RatioAtMostOne(row.lfv_ratio) ELSE TRUE
        reasons == (IF reclass_perturbative THEN <<>> ELSE << <<"perturbativity">> >>)
                   \o (IF reclass_natural THEN <<>> ELSE << <<"naturalness">> >>)
                   \o (IF reclass_lfv_passes THEN <<>> ELSE << <<"mu_to_e_gamma">> >>)
    IN  [reclass_max_Y_bar_observed |-> max_y,
         reclass_min_Y_bar_observed |-> min_y,
         reclass_perturbative |-> reclass_perturbative,
         reclass_natural |-> reclass_natural,
         reclass_lfv_passes |-> reclass_lfv_passes,
         reclass_passes_all |-> (Len(reasons) = 0),
         reclass_reject_reason |-> Join(reasons)]

\* the grids a caller configures: ScanConfig rejects an empty grid
GridChoices ==
    << {<<3>>, <<3, 5>>},
       {<<58>>, <<55, 60>>},
       {<<27>>, <<25, 30, 35>>},
       {<<CEBenchmark>>, <<CEOverflow>>, <<CEBenchmark, CEOverflow>>,
        <<CEOverflow, CEBenchmark>>, <<CEOverflow, CEOverflow>>},
       {<<1>>, <<1, 2>>},
       {<<2>>, <<0, 2>>} >>

\* the filters a caller passes, each by what it returns: one that rejects
\* with a label, one that rejects with the empty label, one that accepts
FilterChoices ==
    { <<>>,
      << [ok |-> FALSE, label |-> <<"custom_reject">>] >>,
      << [ok |-> FALSE, label |-> <<>>] >>,
      << [ok |-> TRUE, label |-> <<"unused">>] >> }

\* the LFV coefficients run_scan obtains from coefficient_from_br_limit,
\* whose body is not among the sources: a positive number, here 0.002 or 0.028
LfvCValues == {2, 28}

\* no solve_kk call is running
NoSolve ==
    /\ species = "gauge" /\ bc = "NN" /\ c = NoC
    /\ caller_geo = WarpParams(EpsDefault)
    /\ n_req = 3
    /\ exact = TRUE
    /\ tol = TolDefault
    /\ x_max = XMaxDefault
    /\ Start
    /\ other = NoCall

\* run_scan(config, output_csv, extra_filters) at the head of its loop, or a
\* direct call check_mu_to_e_gamma(result, C=..., reference_scale=...[,
\* M_KK_override=...]) about to be made
InitScan ==
    /\ NoSolve
    /\ \/ \E g1 \in GridChoices[1], g2 \in GridChoices[2], g3 \in GridChoices[3],
             g4 \in GridChoices[4], g5 \in GridChoices[5], g6 \in GridChoices[6],
             xi \in {1, 2}, out \in BOOLEAN, fs \in FilterChoices,
             lc \in LfvCValues :
             probe = [form |-> "run_scan",
                      config |-> [grids |-> <<g1, g2, g3, g4, g5, g6>>,
                                  xi_KK |-> xi,
                                  max_Y_bar |-> MaxYBarDefault,
                                  naturalness_range |-> <<NaturalLo, NaturalHi>>,
                                  lfv_reference_scale |-> ReferenceScale],
                      output_csv |-> out,
                      extra_filters |-> fs,
                      lfv_C |-> lc,
                      pc |-> "loop",
                      idx |-> <<1, 1, 1, 1, 1, 1>>,
                      sample_index |-> 0,
                      results |-> <<>>,
                      row |-> <<>>,
                      csv |-> <<>>,
                      csv_written |-> FALSE,
                      reclass |-> <<>>,
                      error |-> "none"]
       \/ \E lam \in {3, 5}, y \in YukawaValues, lc \in LfvCValues,
             ov \in {0, 6} :
             probe = [form |-> "check_mu_to_e_gamma",
                      result |-> [kind |-> "result", Y_E_bar |-> y.Y_E_bar,
                                  Y_N_bar |-> y.Y_N_bar, offdiag |-> y.offdiag,
                                  params |-> [Lambda_IR |-> lam, c_L |-> 58]],
                      kw |-> IF ov = 0
                             THEN [C |-> lc, reference_scale |-> ReferenceScale]
                             ELSE [C |-> lc, reference_scale |-> ReferenceScale,
                                   M_KK_override |-> ov],
                      evaluated |-> FALSE,
                      out |-> [kind |-> "none"]]

\* one pass of run_scan's loop: the point the iterator is at is evaluated
\* and its row appended, or the exception that leaves _evaluate_point
\* leaves run_scan
EvaluatePoint ==
    /\ probe.form = "run_scan"
    /\ probe.pc = "loop"
    /\ LET pt == PointAt(probe.config, probe.idx)
       IN  \E res \in compute_all_yukawas(pt) :
             LET out == evaluate_point(probe.sample_index, pt, probe.config,
                                       probe.lfv_C, probe.extra_filters, res)
             IN  IF out.kind = "row"
                 THEN probe' =
                        [probe EXCEPT
                           !.results = Append(probe.results, out.row),
                           !.pc = IF Exhausted(probe.config, probe.idx)
                                  THEN "finish" ELSE "loop",
                           !.idx = Advance(probe.config, probe.idx, 6),
                           !.sample_index = probe.sample_index + 1]
                 ELSE probe' = [probe EXCEPT !.pc = "raised",
                                             !.error = out.kind,
                                             !.row = out.row]
    /\ UNCHANGED <<inputs, pc, geometry, nu, nu_label, search, scan, warned,
                   n_roots, xs, calls, result, error, other>>

\* after the loop: csv.DictWriter writes the header and every row when
\* output_csv is given, and run_scan returns results
FinishScan ==
    /\ probe.form = "run_scan"
    /\ probe.pc = "finish"
    /\ probe' = [probe EXCEPT
                   !.csv = IF probe.output_csv THEN probe.results ELSE <<>>,
                   !.csv_written = probe.output_csv,
                   !.pc = "returned"]
    /\ UNCHANGED <<inputs, pc, geometry, nu, nu_label, search, scan, warned,
                   n_roots, xs, calls, result, error, other>>

\* the caller classifies the next returned row with classify_row(row,
\* ReclassifyConfig())
ClassifyRow ==
    /\ probe.form = "run_scan"
    /\ probe.pc = "returned"
    /\ Len(probe.reclass) < Len(probe.results)
    /\ probe' = [probe EXCEPT !.reclass =
                   Append(probe.reclass,
                          classify_row(probe.results[Len(probe.reclass) + 1],
                                       ReclassifyDefault))]
    /\ UNCHANGED <<inputs, pc, geometry, nu, nu_label, search, scan, warned,
                   n_roots, xs, calls, result, error, other>>

\* the direct call of check_mu_to_e_gamma
CheckMuToEGamma ==
    /\ probe.form = "check_mu_to_e_gamma"
    /\ ~probe.evaluated
    /\ probe' = [probe EXCEPT !.evaluated = TRUE,
                              !.out = check_mu_to_e_gamma(probe.result, probe.kw)]
    /\ UNCHANGED <<inputs, pc, geometry, nu, nu_label, search, scan, warned,
                   n_roots, xs, calls, result, error, other>>

NextScan == EvaluatePoint \/ FinishScan \/ ClassifyRow \/ CheckMuToEGamma

SpecScan == InitScan /\ [][NextScan]_vars

\* the number of points the grids after grid g span
RECURSIVE Stride(_, _)
Stride(config, g) ==
    IF g >= 6 THEN 1 ELSE Len(config.grids[g + 1]) * Stride(config, g + 1)

\* the point at position n (from 0) of the grid-iteration order: the last
\* grid varies fastest
NthPoint(config, n) ==
    PointAt(config,
            [g \in 1..6 |-> ((n \div Stride(config, g)) % Len(config.grids[g])) + 1])

\* run_scan is over: it returned or an exception left it
ScanOver == probe.form = "run_scan" /\ probe.pc \in {"returned", "raised"}

ScanReturned == probe.form = "run_scan" /\ probe.pc = "returned"

\* the row is the row of the point pt
RowOfPoint(row, pt) ==
    /\ row.Lambda_IR = pt.Lambda_IR
    /\ row.c_L = pt.c_L
    /\ row.c_N = pt.c_N
    /\ row.c_E = pt.c_E
    /\ row.MN_over_k = pt.MN_over_k
    /\ row.lightest_nu_mass = pt.lightest_nu_mass

\* the row of a point whose Yukawa computation raised
ExceptionRow(row) ==
    /\ ~row.passes_all
    /\ Len(row.reject_reason) > 0
    /\ row.reject_reason[1] = "exception:"

\* C21: a scan that is over has returned, not raised; it returned
\* total_points rows, the product of the sizes of the six grids; the row at
\* position p has sample_index p and is the row of the p-th point of the
\* grid-iteration order; the CSV written holds the same rows; and the row of
\* a point whose Yukawa computation raises has passes_all False and a
\* reject_reason that starts with 'exception:'.
C21_OneRowPerGridPoint ==
    ScanOver =>
        /\ probe.pc = "returned"
        /\ Len(probe.results) = total_points(probe.config)
        /\ \A p \in 1..Len(probe.results) :
              /\ probe.results[p].sample_index = p - 1
              /\ RowOfPoint(probe.results[p], NthPoint(probe.config, p - 1))
              /\ probe.results[p].c_E = CEOverflow => ExceptionRow(probe.results[p])
        /\ probe.output_csv => probe.csv_written /\ probe.csv = probe.results

\* the fraction f equals C (M / ref)^2
IsBound(f, C, M, ref) == f.den > 0 /\ f.num * ref * ref = f.den * C * M * M

\* the keyword arguments of the direct call without its M_KK_override
WithoutOverride(kw) == [n \in DOMAIN kw \ {"M_KK_override"} |-> kw[n]]

\* C23: every grid point that run_scan evaluated and whose Yukawa
\* computation succeeded has a row with M_KK = xi_KK * Lambda_IR and
\* lfv_rhs = C * (M_KK / lfv_reference_scale)^2; and a direct call of
\* check_mu_to_e_gamma with an explicit M_KK override returns a result whose
\* right-hand side is C * (override / reference_scale)^2 and whose left-hand
\* side is that of the call without the override.
C23_LFVUsesXiKKLambdaIR ==
    /\ probe.form = "run_scan" =>
          /\ probe.pc # "raised"
          /\ \A p \in 1..Len(probe.results) :
                LET row == probe.results[p]
                IN  /\ row.M_KK = probe.config.xi_KK * row.Lambda_IR
                    /\ row.c_E # CEOverflow =>
                          IsBound(row.lfv_rhs, probe.lfv_C, row.M_KK,
                                  probe.config.lfv_reference_scale)
    /\ (probe.form = "check_mu_to_e_gamma" /\ probe.evaluated
          /\ "M_KK_override" \in DOMAIN probe.kw) =>
          /\ probe.out.kind = "result"
          /\ IsBound(probe.out.rhs, probe.kw.C, probe.kw.M_KK_override,
                     probe.kw.reference_scale)
          /\ probe.out.lhs
               = check_mu_to_e_gamma(probe.result, WithoutOverride(probe.kw)).lhs

C29_PassesAllIffNoReason ==
    ScanReturned =>
        \A p \in 1..Len(probe.results) :
            probe.results[p].passes_all <=> probe.results[p].reject_reason = <<>>

\* C29: a scan that was given a filter rejecting with the empty label
\* returned four rows, each rejected with a reason
C29_Witness ==
    /\ ScanReturned
    /\ Len(probe.extra_filters) = 1
    /\ ~probe.extra_filters[1].ok
    /\ probe.extra_filters[1].label = <<>>
    /\ Len(probe.results) = 4
    /\ \A p \in 1..4 : /\ ~probe.results[p].passes_all
                       /\ probe.results[p].reject_reason # <<>>

(***************************************************************************)
(* 10) The running coupling: alpha_s(mu, mu_ref, thresholds,               *)
(*     matching_loops).  A scale is an integer on a lattice, and since     *)
(*     t = ln(mu^2) grows with mu the order of the t values is the order   *)
(*     of the scales.  Two scales one lattice step apart are so near that  *)
(*     np.isclose(t_start, t_end, rtol=1e-14) holds of their t values      *)
(*     (its default atol is 1e-8), while np.isclose(mu, mu_ref,            *)
(*     rtol=1e-12) does not hold of them.  The value of the coupling is    *)
(*     not computed: the call is known by the steps it took.               *)
(***************************************************************************)

\* np.isclose(t_start, t_end, rtol=1e-14) and np.isclose(mu, mu_ref, rtol=1e-12)
CloseT(s, t) == Abs(s - t) <= 1

CloseMu(s, t) == s = t

\* sorted(thresholds, key=lambda x: x[0]): stable, by mass
RECURSIVE InsertByMass(_, _)
InsertByMass(th, sorted) ==
    IF Len(sorted) = 0 THEN <<th>>
    ELSE IF th.mass < sorted[1].mass THEN <<th>> \o sorted
         ELSE <<sorted[1]>> \o InsertByMass(th, Tail(sorted))

RECURSIVE SortByMass(_)
SortByMass(ths) ==
    IF Len(ths) = 0 THEN <<>>
    ELSE InsertByMass(ths[Len(ths)], SortByMass(SubSeq(ths, 1, Len(ths) - 1)))

\* the loop of _n_f_at_scale: n_f becomes n_f_above at every threshold with
\* mu >= mass, until the first threshold above mu
RECURSIVE n_f_walk(_, _, _)
n_f_walk(mu, ths, n_f) ==
    IF Len(ths) = 0 THEN n_f
    ELSE IF mu >= ths[1].mass
         THEN n_f_walk(mu, Tail(ths), ths[1].n_f_above)
         ELSE n_f

\* _n_f_at_scale(mu, thresholds)
n_f_at_scale(mu, ths) ==
    IF Len(ths) = 0 THEN 5 ELSE n_f_walk(mu, ths, ths[1].n_f_below)

\* the thresholds strictly between mu_ref and mu, in list order
RECURSIVE Between(_, _, _)
Between(ths, mu_ref, mu) ==
    IF Len(ths) = 0 THEN <<>>
    ELSE (IF \/ (mu > mu_ref /\ mu_ref < ths[1].mass /\ ths[1].mass < mu)
             \/ (~(mu > mu_ref) /\ mu < ths[1].mass /\ ths[1].mass < mu_ref)
          THEN <<ths[1]>> ELSE <<>>) \o Between(Tail(ths), mu_ref, mu)

\* the sequence reversed
RECURSIVE Reverse(_)
Reverse(s) == IF Len(s) = 0 THEN <<>> ELSE Reverse(Tail(s)) \o <<s[1]>>

\* crossings.sort(key=lambda x: x[0], reverse=(not running_up)): a stable
\* sort, and a reversed stable sort keeps equal keys in their first order
crossings_sorted(cr, running_up) ==
    IF running_up THEN SortByMass(cr) ELSE Reverse(SortByMass(Reverse(cr)))

\* no flavor number follows the last segment
NoNf == 0

\* lines 146-156: the segments (t_start, t_end, n_f, n_f_next)
RECURSIVE build_segments(_, _, _, _, _)
build_segments(cr, current_t, current_nf, target, running_up) ==
    IF Len(cr) = 0
    THEN << [t_start |-> current_t, t_end |-> target, nf |-> current_nf,
             nf_next |-> NoNf] >>
    ELSE LET next_nf == IF running_up THEN cr[1].n_f_above ELSE cr[1].n_f_below
         IN  << [t_start |-> current_t, t_end |-> cr[1].mass,
                 nf |-> current_nf, nf_next |-> next_nf] >>
             \o build_segments(Tail(cr), cr[1].mass, next_nf, target, running_up)

\* match_alpha_s(alpha_s, n_f_from, n_f_to, matching_loops), by what it does
match_alpha_s(n_f_from, n_f_to, matching_loops) ==
    IF n_f_from = n_f_to THEN "unchanged"
    ELSE IF Abs(n_f_from - n_f_to) # 1 THEN "ValueError"
         ELSE IF matching_loops <= 1 THEN "unchanged"
              ELSE IF n_f_to < n_f_from THEN "matched_down" ELSE "matched_up"

\* the default thresholds (charm, bottom, top), the same list out of order,
\* one threshold, and none
ThresholdChoices ==
    { << [mass |-> 20, n_f_below |-> 3, n_f_above |-> 4],
         [mass |-> 40, n_f_below |-> 4, n_f_above |-> 5],
         [mass |-> 60, n_f_below |-> 5, n_f_above |-> 6] >>,
      << [mass |-> 40, n_f_below |-> 4, n_f_above |-> 5],
         [mass |-> 60, n_f_below |-> 5, n_f_above |-> 6],
         [mass |-> 20, n_f_below |-> 3, n_f_above |-> 4] >>,
      << [mass |-> 40, n_f_below |-> 4, n_f_above |-> 5] >>,
      <<>> }

\* the scales a caller passes as mu and mu_ref
ScaleValues == {-5, 0, 10, 19, 20, 21, 30, 39, 40, 41, 50, 60, 61, 70}

\* matching_loops after the precision preset and the default are applied
MatchingLoopsValues == {0, 2, 3}

\* a caller about to call alpha_s(mu, mu_ref=..., thresholds=...,
\* matching_loops=...); mu_ref is a positive scale
InitAlpha ==
    /\ NoSolve
    /\ \E mu \in ScaleValues, ref \in {s \in ScaleValues : s > 0},
          ths \in ThresholdChoices, ml \in MatchingLoopsValues :
          probe = [form |-> "alpha_s", mu |-> mu, mu_ref |-> ref,
                   thresholds |-> ths, matching_loops |-> ml,
                   pc |-> "start", segments |-> <<>>, i |-> 1,
                   steps |-> <<>>, error |-> "none"]

\* lines 101-156: the argument checks, the trivial case, the crossings and
\* the segments
AlphaBegin ==
    /\ probe.form = "alpha_s"
    /\ probe.pc = "start"
    /\ LET ths == SortByMass(probe.thresholds)
           running_up == probe.mu > probe.mu_ref
           cr == crossings_sorted(Between(ths, probe.mu_ref, probe.mu), running_up)
       IN  probe' =
             IF probe.mu <= 0
             THEN [probe EXCEPT !.pc = "raised", !.error = "ValueError"]
             ELSE IF CloseMu(probe.mu, probe.mu_ref)
                  THEN [probe EXCEPT !.pc = "returned"]
                  ELSE [probe EXCEPT
                          !.pc = "integrate",
                          !.thresholds = ths,
                          !.segments =
                             build_segments(cr, probe.mu_ref,
                                            n_f_at_scale(probe.mu_ref, ths),
                                            probe.mu, running_up)]
    /\ UNCHANGED <<inputs, pc, geometry, nu, nu_label, search, scan, warned,
                   n_roots, xs, calls, result, error, other>>

\* one pass of the loop of lines 161-189 over the next segment: a segment
\* whose ends are close is passed over; otherwise solve_ivp integrates it
\* with the segment's n_f, failing or not, and match_alpha_s is called when
\* a segment follows and matching_loops > 0; after the last segment
\* alpha_s returns
IntegrateSegment ==
    /\ probe.form = "alpha_s"
    /\ probe.pc = "integrate"
    /\ LET seg == probe.segments[probe.i]
           last == probe.i = Len(probe.segments)
           after == IF last THEN "returned" ELSE "integrate"
       IN  IF CloseT(seg.t_start, seg.t_end)
           THEN probe' = [probe EXCEPT
                            !.steps = Append(probe.steps,
                                         [op |-> "skip", from |-> seg.t_start,
                                          to |-> seg.t_end, nf |-> seg.nf]),
                            !.i = probe.i + 1,
                            !.pc = after]
           ELSE \E success \in BOOLEAN :
                  LET run == [op |-> "run", from |-> seg.t_start,
                              to |-> seg.t_end, nf |-> seg.nf]
                  IN
                  IF ~success
                  THEN probe' = [probe EXCEPT !.pc = "raised",
                                              !.error = "RuntimeError"]
                  ELSE IF seg.nf_next # NoNf /\ probe.matching_loops > 0
                       THEN LET m == match_alpha_s(seg.nf, seg.nf_next,
                                                   probe.matching_loops)
                            IN  IF m = "ValueError"
                                THEN probe' =
                                       [probe EXCEPT
                                          !.steps = Append(probe.steps, run),
                                          !.pc = "raised",
                                          !.error = "ValueError"]
                                ELSE probe' =
                                       [probe EXCEPT
                                          !.steps = probe.steps \o
                                             << run,
                                                [op |-> "match", from |-> seg.t_end,
                                                 to |-> seg.t_end, nf |-> seg.nf,
                                                 nf_to |-> seg.nf_next,
                                                 how |-> m] >>,
                                          !.i = probe.i + 1,
                                          !.pc = after]
                       ELSE probe' = [probe EXCEPT
                                        !.steps = Append(probe.steps, run),
                                        !.i = probe.i + 1,
                                        !.pc = after]
    /\ UNCHANGED <<inputs, pc, geometry, nu, nu_label, search, scan, warned,
                   n_roots, xs, calls, result, error, other>>

NextAlpha == AlphaBegin \/ IntegrateSegment

SpecAlpha == InitAlpha /\ [][NextAlpha]_vars

\* alpha_s returned after evolving, mu not being mu_ref
AlphaEvolved ==
    /\ probe.form = "alpha_s"
    /\ probe.pc = "returned"
    /\ probe.mu # probe.mu_ref

\* the segments alpha_s went through and the matchings it applied, in order
IsSegmentStep(e) == e.op \in {"run", "skip"}

IsMatchStep(e) == e.op = "match"

SegmentSteps == SelectSeq(probe.steps, IsSegmentStep)

MatchSteps == SelectSeq(probe.steps, IsMatchStep)

\* the thresholds whose mass lies strictly between mu_ref and mu
CrossedThresholds ==
    {th \in {probe.thresholds[j] : j \in 1..Len(probe.thresholds)} :
        Min(probe.mu_ref, probe.mu) < th.mass /\ th.mass < Max(probe.mu_ref, probe.mu)}

\* the flavor number n is the one active inside the segment seg: seg lies
\* under the threshold nearest above it and n is that threshold's n_f_below,
\* and seg lies over the threshold nearest below it and n is that
\* threshold's n_f_above
ActiveInside(n, seg) ==
    LET lo == Min(seg.from, seg.to)
        hi == Max(seg.from, seg.to)
        ths == {probe.thresholds[j] : j \in 1..Len(probe.thresholds)}
    IN  \A th \in ths :
          /\ (hi <= th.mass /\ ~\E o \in ths : hi <= o.mass /\ o.mass < th.mass)
                => n = th.n_f_below
          /\ (th.mass <= lo /\ ~\E o \in ths : th.mass < o.mass /\ o.mass <= lo)
                => n = th.n_f_above

\* C30: when alpha_s has evolved the coupling from mu_ref to mu, its
\* segments are contiguous from mu_ref to mu, split at exactly the threshold
\* masses strictly between the two and taken in the direction of running;
\* the flavor number of each segment is the number of flavors active inside
\* it, also when mu_ref is a threshold mass; and when matching_loops > 0 the
\* matching is applied exactly once at each crossed threshold and nowhere
\* else.
C30_SegmentsFollowThresholds ==
    AlphaEvolved =>
        LET segs == SegmentSteps
            up == probe.mu > probe.mu_ref
        IN  /\ Len(segs) = Cardinality({th.mass : th \in CrossedThresholds}) + 1
            /\ segs[1].from = probe.mu_ref
            /\ segs[Len(segs)].to = probe.mu
            /\ \A j \in 1..Len(segs) :
                  /\ up => segs[j].from < segs[j].to
                  /\ ~up => segs[j].from > segs[j].to
                  /\ j < Len(segs) =>
                        /\ segs[j].to = segs[j + 1].from
                        /\ \E th \in CrossedThresholds : th.mass = segs[j].to
                  /\ ActiveInside(segs[j].nf, segs[j])
            /\ probe.matching_loops > 0 =>
                  /\ Len(MatchSteps) = Cardinality(CrossedThresholds)
                  /\ \A th \in CrossedThresholds :
                        Cardinality({j \in 1..Len(MatchSteps) :
                                        MatchSteps[j].from = th.mass}) = 1

====
